---- MODULE Spec2Model ----
(***************************************************************************)
(* CI Sidecar: a Probot app that mirrors the jobs of a Travis build as     *)
(* GitHub checks.  The parts of it that are modelled here:                 *)
(*   - the status / issue_comment handlers of index.ts with the per-build  *)
(*     pending-count map (the event serializer), for the configured        *)
(*     ceiling,                                                            *)
(*   - Travis.getJobOutput / getJobOutputImpl of travis.ts (the retrying   *)
(*     scanner of a job's log for a fenced JSON block),                    *)
(*   - GitHub.jobsToUpdate of github.ts, the diff of the stored jobs of a  *)
(*     build against the jobs just fetched,                                *)
(*   - GitHub.createCheck of github.ts with getStatus and getConclusion,   *)
(*   - processJobs of index.ts, one pass after another for one build:      *)
(*     Travis.getSupportedJobs, GitHub.checksToCreate and the createCheck  *)
(*     calls run together,                                                 *)
(*   - Store.replace and Store.update of store.ts over the metadata of the *)
(*     issue, called one after another and by handlers that overlap,       *)
(*   - the status handler of the index.ts that keeps the jobs of a build   *)
(*     in the Store: replace, jobsToUpdate, createCheck / updateCheck and  *)
(*     update,                                                             *)
(*   - the status handler of the index.ts that gates with a Set and a      *)
(*     second-chance Map, given the same events as the one that counts.    *)
(***************************************************************************)
EXTENDS Integers, Sequences, FiniteSets, TLC

VARIABLES
  \* ---- index.ts
  inProgress,   \* the Map build key -> pending count (a function on the keys present)
  passes,       \* per build key, the processJobs calls in flight, oldest first
  lookups,      \* issue_comment handlers awaiting deleteComment / getLatestTravisStatus
  nEvents,      \* status events delivered so far
  nComments,    \* issue_comment events delivered so far
  arrivals,     \* history: per key, the status events that carried that key
  fetchedAt,    \* history: per key, arrivals[key] when the status handler last started a pass
  started,      \* history: per key, the passes the status handler has started
  finished,     \* history: per key, the passes of the status handler that have completed
  late,         \* history: per key, a status event arrived after the first such completion
  \* ---- travis.ts: one call of getJobOutput and its current getJobOutputImpl call
  state,        \* ParserState of the current attempt
  outputString, \* the text gathered inside the fence, a sequence of characters
  lineCount,    \* the lines the 'data' handler has been given
  deadline,     \* the 30 s timer: "armed", "cleared" or "fired"
  aborted,      \* req.abort() has been called
  ended,        \* the line stream has emitted 'end'
  closed,       \* the line stream has emitted 'close'
  errored,      \* the line stream has emitted 'error'
  settled,      \* the calls of resolve / reject made by the attempt, in order
  tries,        \* getJobOutput's countdown
  wpc,          \* where getJobOutput is: "awaiting", "backoff", "returned", "thrown"
  wresult,      \* what getJobOutput returned or threw
  attempts,     \* history: the calls of getJobOutputImpl made
  seen,         \* history: the lines given to the current attempt
  \* ---- github.ts: one call of jobsToUpdate and the update requests made of it
  oldJobs,      \* the jobs the Store held for the build (store.replace's answer)
  newJobs,      \* the jobs travis.getSupportedJobs() gave
  diff,         \* what jobsToUpdate returned: [create, update]
  requests,     \* the parameters of the checks.update calls, in the order of diff.update
  dpc,          \* "idle", "called" (inputs at hand), "diffed", "built"
  \* ---- github.ts: one call of createCheck
  job,          \* the JobInfo createCheck was called with
  createParams, \* createCheck's `payload`, the Octokit.ChecksCreateParams being built
  created,      \* what createCheck returned: a checkRunId or undefined
  cpc,          \* "idle", "called", "output" (awaiting getJobOutput), "creating"
                \* (awaiting checks.create), "done"
  extraction,   \* history: how the awaited getJobOutput settled, None while it has not
  \* ---- index.ts: the processJobs calls made for one build, one after another
  travisJobs,   \* the jobs of the build at Travis: [id, env, state] each
  checks,       \* the check runs of the app at GitHub for the head commit: the set of
                \* their [external_id, name, status, conclusion, completed_at]
  ppc,          \* processJobs: "idle", "fetching", "appid", "listing", "publishing"
  fetched,      \* `jobs`, the answer of getSupportedJobs
  toCreate,     \* the answer of checksToCreate
  ops,          \* `operations`: per job of toCreate, the createCheck call
  nPasses,      \* the processJobs calls made
  nChanges,     \* the state changes of jobs at Travis
  lastPass,     \* how the last processJobs call ended: "fulfilled", "rejected" or None
  everFetched,  \* history: the jobIds getSupportedJobs has ever answered
  \* ---- store.ts: the calls of Store.replace and Store.update on the metadata of one issue
  memory,       \* the metadata of the issue: a function from the build ids that
                \* have an entry to their JobInfo[]
  spc,          \* per caller, where its Store call is: "idle", "replace-get",
                \* "replace-set", "update-get", "update-set"
  sbuild,       \* per caller, this.build.id of its Store
  sarg,         \* per caller, the argument of the call (`jobs`, `jobsToUpdate`)
  sgot,         \* per caller, what data.get answered: [defined, jobs]
  smerged,      \* per caller, `jobs` of update after its loop
  sret,         \* per caller, what its last replace returned
  slast,        \* per caller, how its last call ended: "replace", "update", "no memory" or None
  nCalls,       \* the Store calls made
  \* ---- index.ts with the Store: the status handlers of one build, one after another
  hpc,          \* the handler: "idle", "loading", "replace-get", "replace-set",
                \* "publishing", "update-get", "update-set"
  hjobs,        \* `jobs`, the answer of getSupportedJobs (a created job gets its checkRunId here)
  hgot,         \* what data.get answered to the Store call under way
  hprevious,    \* `previous`, the answer of store.replace
  hdiff,        \* `diff`, the answer of jobsToUpdate
  hops,         \* `operations`, as the call made for each job of diff.create and diff.update
  htoStore,     \* `toStore`
  hmerged,      \* `jobs` of Store.update after its loop
  nHandled,     \* the status events handled
  nextCheckId,  \* the check runs GitHub has created, plus one
  createdAs,    \* history, per jobId the ids createCheck has returned for it
  createFailed, \* history, the jobIds whose last createCheck returned undefined
  updateFailed, \* history, per jobId the status of its last updateCheck if that failed, else None
  lastJobs,     \* history: `jobs` of the latest handler that got to store.replace
  lastSucceeded, \* history: no operation of that handler has failed
  \* ---- index.ts: the configuration
  ceiling,      \* what parseInt gave for MAX_IN_PROGRESS when the module was loaded
  \* ---- the index.ts that gates with a Set and a second-chance Map, given the same
  \* ---- events and pass completions as the one that counts
  inProgressSet, \* its Set `inProgress` of build keys
  secondChance, \* the keys of its Map `secondChance`
  flagPass,     \* per build key, the processJobs call its handler awaits, 0 (none) 1 or 2
  flagStarted,  \* history, per key the passes that handler has started
  flagSkipped   \* history, per key the status events that handler has skipped

serVars == <<inProgress, passes, lookups, nEvents, nComments, arrivals, fetchedAt,
             started, finished, late>>

extVars == <<state, outputString, lineCount, deadline, aborted, ended, closed, errored,
             settled, tries, wpc, wresult, attempts, seen>>

diffVars == <<oldJobs, newJobs, diff, requests, dpc>>

checkVars == <<job, createParams, created, cpc, extraction>>

passVars == <<travisJobs, checks, ppc, fetched, toCreate, ops, nPasses, nChanges, lastPass,
              everFetched>>

storeCallVars == <<spc, sbuild, sarg, sgot, smerged, sret, slast, nCalls>>
storeVars == <<memory, storeCallVars>>

handlerVars == <<hpc, hjobs, hgot, hprevious, hdiff, hops, htoStore, hmerged, nHandled,
                 nextCheckId, createdAs, createFailed, updateFailed, lastJobs,
                 lastSucceeded>>

ceilingVars == <<ceiling>>

flagVars == <<inProgressSet, secondChance, flagPass, flagStarted, flagSkipped>>

notSerVars == <<extVars, diffVars, checkVars, passVars, storeVars, handlerVars,
                   ceilingVars, flagVars>>
notExtVars == <<serVars, diffVars, checkVars, passVars, storeVars, handlerVars,
                   ceilingVars, flagVars>>
notDiffVars == <<serVars, extVars, checkVars, passVars, storeVars, handlerVars,
                   ceilingVars, flagVars>>
notCheckVars == <<serVars, extVars, diffVars, passVars, storeVars, handlerVars,
                   ceilingVars, flagVars>>
notPassVars == <<serVars, extVars, diffVars, checkVars, storeVars, handlerVars,
                   ceilingVars, flagVars>>

notStoreVars == <<serVars, extVars, diffVars, checkVars, passVars, handlerVars,
                   ceilingVars, flagVars>>
\* the handler writes `memory` through its Store
notHandlerVars == <<serVars, extVars, diffVars, checkVars, passVars, storeCallVars,
                    ceilingVars, flagVars>>
notCeilingVars == <<serVars, extVars, diffVars, checkVars, passVars, storeVars, handlerVars, flagVars>>
\* the two gates side by side write serVars and flagVars
notGatesVars == <<extVars, diffVars, checkVars, passVars, storeVars, handlerVars, ceilingVars>>
vars == <<serVars, extVars, diffVars, checkVars, passVars, storeVars, handlerVars,
          ceilingVars, flagVars>>

None == "none"

\* the '2' of `process.env.MAX_IN_PROGRESS || '2'`
DefaultMaxInProgress == 2

----------------------------------------------------------------------------
\* Bounds of the model

MaxEvents == 5      \* status events delivered in a run
MaxComments == 1    \* issue_comment events delivered in a run
MaxLines == 5       \* log lines given to the first attempt of a getJobOutput call
MaxRetryLines == 3  \* log lines given to each later attempt
MaxPasses == 3      \* processJobs calls made for the build
MaxChanges == 3     \* state changes of the build's jobs at Travis
MaxCalls == 3       \* calls of Store.replace and Store.update
MaxHandled == 3     \* status events of the build handled with the Store
MaxCeiling == 3     \* the largest MAX_IN_PROGRESS configured

----------------------------------------------------------------------------
\* index.ts: the event serializer

maxInProgress == ceiling

\* The hosts and build numbers a status' target_url can carry (None: the regular
\* expression finds nothing).
UrlDomains == {"travis-ci.org", "travis-ci.ORG", "travis-ci.com", None}
UrlBuilds == {"7", None}

\* String.prototype.toLowerCase on the hosts above
toLowerCase(d) == IF d = "travis-ci.ORG" THEN "travis-ci.org" ELSE d

\* A status payload: well formed (the destructuring succeeds) or not, and what the
\* two regular expressions find in target_url.
Malformed == [wellFormed |-> FALSE, domain |-> None, buildId |-> None]
Payloads == {Malformed} \cup [wellFormed : {TRUE}, domain : UrlDomains, buildId : UrlBuilds]

\* undefined, as a BuildInfo
NoBuild == [domain |-> None, id |-> None]

\* A variant of the definition below, as a slip of the code would make it
parseStatusWithoutDomain(payload) ==
  IF ~payload.wellFormed THEN NoBuild
  ELSE IF payload.buildId = None THEN NoBuild
  ELSE [domain |-> toLowerCase(payload.domain), id |-> payload.buildId]

\* Travis.parseStatus: the catch clause answers a payload that cannot be destructured
parseStatus(payload) ==
  IF ~payload.wellFormed THEN NoBuild
  ELSE IF payload.buildId = None \/ payload.domain = None THEN NoBuild
  ELSE [domain |-> toLowerCase(payload.domain), id |-> payload.buildId]

\* `${buildInfo.domain}/${buildInfo.id}`
getProgressKey(buildInfo) == buildInfo.domain \o "/" \o buildInfo.id

Keys == {getProgressKey(parseStatus(p)) : p \in {q \in Payloads : parseStatus(q) # NoBuild}}

\* A variant of getPendingCount, as a slip of the code would make it: inProgress.size
getPendingCountOfMap(key) == Cardinality(DOMAIN inProgress)

\* `inProgress.get(key) || 0`
getPendingCount(key) ==
  IF key \in DOMAIN inProgress /\ inProgress[key] # 0 THEN inProgress[key] ELSE 0

\* Map.set and Map.delete
MapSet(m, k, v) == [x \in (DOMAIN m) \cup {k} |-> IF x = k THEN v ELSE m[x]]
MapDelete(m, k) == [x \in (DOMAIN m) \ {k} |-> m[x]]

\* Variants of the tests below, as slips of the code would make them
OverCeilingEarly(pending) == pending >= maxInProgress
OverCeilingLate(pending) == pending > maxInProgress + 1
AlreadyRunningLate(pending) == pending > 2
AlreadyRunningNever(pending) == FALSE
PendingAfterReset(key) == 0
StoreAfterAlwaysSet(m, key, pendingAfter) == MapSet(m, key, pendingAfter)

\* `pending > maxInProgress`: the event is dropped
OverCeiling(pending) == pending > maxInProgress

\* `pending > 1`: a handler is already looping for the build
AlreadyRunning(pending) == pending > 1

----------------------------------------------------------------------------
\* The event serializer: release of the gate

\* A variant of PendingAfter, as a slip of the code would make it
PendingAfterKept(key) == getPendingCount(key)

\* the count stored after a pass: getPendingCount(key) - 1
PendingAfter(key) == getPendingCount(key) - 1

\* `if (pendingAfter > 0) set else delete`
StoreAfter(m, key, pendingAfter) ==
  IF pendingAfter > 0 THEN MapSet(m, key, pendingAfter) ELSE MapDelete(m, key)

\* a processJobs call at its first await (travis.getSupportedJobs)
NewPass(by) == [by |-> by, phase |-> "fetch"]

RemoveAt(s, i) == [j \in 1..(Len(s) - 1) |-> IF j < i THEN s[j] ELSE s[j + 1]]

StatusPasses(k) == {i \in 1..Len(passes[k]) : passes[k][i].by = "status"}
RescanPasses(k) == {i \in 1..Len(passes[k]) : passes[k][i].by = "rescan"}

\* index.ts as loaded: no entry, no handler running
SerIdle ==
  /\ inProgress = <<>>
  /\ passes = [k \in Keys |-> <<>>]
  /\ lookups = 0
  /\ nEvents = 0
  /\ nComments = 0
  /\ arrivals = [k \in Keys |-> 0]
  /\ fetchedAt = [k \in Keys |-> 0]
  /\ started = [k \in Keys |-> 0]
  /\ finished = [k \in Keys |-> 0]
  /\ late = [k \in Keys |-> FALSE]

\* no call of getJobOutput is under way
ExtIdle ==
  /\ state = "initial"
  /\ outputString = <<>>
  /\ lineCount = 0
  /\ deadline = "cleared"
  /\ aborted = FALSE
  /\ ended = FALSE
  /\ closed = FALSE
  /\ errored = FALSE
  /\ settled = <<>>
  /\ tries = 0
  /\ wpc = "idle"
  /\ wresult = <<>>
  /\ attempts = 0
  /\ seen = <<>>

\* no call of jobsToUpdate is under way
DiffIdle ==
  /\ oldJobs = <<>>
  /\ newJobs = <<>>
  /\ diff = [create |-> <<>>, update |-> <<>>]
  /\ requests = <<>>
  /\ dpc = "idle"

\* no call of createCheck is under way
CheckIdle ==
  /\ job = <<>>
  /\ createParams = <<>>
  /\ created = None
  /\ cpc = "idle"
  /\ extraction = None

\* no build is being looked at
PassIdle ==
  /\ travisJobs = <<>>
  /\ checks = {}
  /\ ppc = "idle"
  /\ fetched = <<>>
  /\ toCreate = <<>>
  /\ ops = <<>>
  /\ nPasses = 0
  /\ nChanges = 0
  /\ lastPass = None
  /\ everFetched = {}

\* the callers of the Store that can be under way at once
Callers == {1, 2}

\* `undefined`, as data.get answers for a build the metadata has no entry of
NoMemory == [defined |-> FALSE, jobs |-> <<>>]

\* no Store call has been made
StoreIdle ==
  /\ memory = <<>>
  /\ spc = [c \in Callers |-> "idle"]
  /\ sbuild = [c \in Callers |-> None]
  /\ sarg = [c \in Callers |-> <<>>]
  /\ sgot = [c \in Callers |-> NoMemory]
  /\ smerged = [c \in Callers |-> <<>>]
  /\ sret = [c \in Callers |-> <<>>]
  /\ slast = [c \in Callers |-> None]
  /\ nCalls = 0

\* no status event of the build has been handled
HandlerIdle ==
  /\ hpc = "idle"
  /\ hjobs = <<>>
  /\ hgot = NoMemory
  /\ hprevious = <<>>
  /\ hdiff = [create |-> <<>>, update |-> <<>>]
  /\ hops = <<>>
  /\ htoStore = <<>>
  /\ hmerged = <<>>
  /\ nHandled = 0
  /\ nextCheckId = 1
  /\ createdAs = [j \in {"1", "2"} |-> {}]
  /\ createFailed = {}
  /\ updateFailed = [j \in {"1", "2"} |-> None]
  /\ lastJobs = <<>>
  /\ lastSucceeded = TRUE

\* MAX_IN_PROGRESS is not set
CeilingDefault ==
  /\ ceiling = DefaultMaxInProgress

FlagIdle ==
  /\ inProgressSet = {}
  /\ secondChance = {}
  /\ flagPass = [k \in Keys |-> 0]
  /\ flagStarted = [k \in Keys |-> 0]
  /\ flagSkipped = [k \in Keys |-> 0]

InitSer ==
  /\ FlagIdle
  /\ SerIdle
  /\ ExtIdle
  /\ DiffIdle
  /\ CheckIdle
  /\ PassIdle
  /\ StoreIdle
  /\ HandlerIdle
  /\ CeilingDefault

\* app.on('status'), from the event to the handler's first await or its return: what
\* it does to the state of index.ts
StatusHandled(payload) ==
  /\ nEvents < MaxEvents
  /\ nEvents' = nEvents + 1
  /\ UNCHANGED <<lookups, nComments, finished>>
  /\ LET buildInfo == parseStatus(payload) IN
     IF buildInfo = NoBuild
     THEN /\ UNCHANGED <<inProgress, passes, arrivals, fetchedAt, started, late>>
     ELSE
       LET key == getProgressKey(buildInfo)
           pending == getPendingCount(key) + 1
       IN
       /\ arrivals' = [arrivals EXCEPT ![key] = @ + 1]
       /\ late' = [late EXCEPT ![key] = @ \/ finished[key] > 0]
       /\ IF OverCeiling(pending)
          THEN /\ UNCHANGED <<inProgress, passes, fetchedAt, started>>
          ELSE /\ inProgress' = MapSet(inProgress, key, pending)
               /\ IF AlreadyRunning(pending)
                  THEN /\ UNCHANGED <<passes, fetchedAt, started>>
                  ELSE \* the while loop is entered: getPendingCount(key) > 0
                       /\ passes' = [passes EXCEPT ![key] = Append(@, NewPass("status"))]
                       /\ fetchedAt' = [fetchedAt EXCEPT ![key] = arrivals'[key]]
                       /\ started' = [started EXCEPT ![key] = @ + 1]

StatusEvent(payload) == StatusHandled(payload) /\ UNCHANGED notSerVars

\* The continuation of the code awaiting the i-th processJobs call of key k, once that
\* call has settled (fulfilled or rejected).
\*   status handler: lines 126-139 and the loop test of line 119;
\*   issue_comment handler: nothing is left to do.
PassSettled(k, i) ==
  /\ UNCHANGED <<lookups, nEvents, nComments, arrivals, late>>
  /\ IF passes[k][i].by = "status"
     THEN LET pendingAfter == PendingAfter(k)
              stored == StoreAfter(inProgress, k, pendingAfter)
              again == k \in DOMAIN stored /\ stored[k] > 0
          IN
          /\ inProgress' = stored
          /\ finished' = [finished EXCEPT ![k] = @ + 1]
          /\ IF again
             THEN /\ passes' = [passes EXCEPT ![k] = Append(RemoveAt(@, i), NewPass("status"))]
                  /\ fetchedAt' = [fetchedAt EXCEPT ![k] = arrivals[k]]
                  /\ started' = [started EXCEPT ![k] = @ + 1]
             ELSE /\ passes' = [passes EXCEPT ![k] = RemoveAt(@, i)]
                  /\ UNCHANGED <<fetchedAt, started>>
     ELSE /\ passes' = [passes EXCEPT ![k] = RemoveAt(@, i)]
          /\ UNCHANGED <<inProgress, finished, fetchedAt, started>>

Completed(k, i) == PassSettled(k, i) /\ UNCHANGED notSerVars

\* processJobs: travis.getSupportedJobs() settles; undefined (the request failed, or
\* the build is no pull request build) makes processJobs return
FetchDone(k, i, jobs) ==
  /\ i \in 1..Len(passes[k])
  /\ passes[k][i].phase = "fetch"
  /\ IF jobs
     THEN /\ passes' = [passes EXCEPT ![k][i].phase = "diff"]
          /\ UNCHANGED <<inProgress, lookups, nEvents, nComments, arrivals, fetchedAt,
                         started, finished, late>>
          /\ UNCHANGED notSerVars
     ELSE Completed(k, i)

\* processJobs: getAppId and github.checksToCreate settle; getAppId can reject, and
\* then processJobs rejects
DiffDone(k, i, ok) ==
  /\ i \in 1..Len(passes[k])
  /\ passes[k][i].phase = "diff"
  /\ IF ok
     THEN /\ passes' = [passes EXCEPT ![k][i].phase = "publish"]
          /\ UNCHANGED <<inProgress, lookups, nEvents, nComments, arrivals, fetchedAt,
                         started, finished, late>>
          /\ UNCHANGED notSerVars
     ELSE Completed(k, i)

\* processJobs: every createCheck of the pass has settled (Promise.all)
PublishDone(k, i) ==
  /\ i \in 1..Len(passes[k])
  /\ passes[k][i].phase = "publish"
  /\ Completed(k, i)

\* app.on('issue_comment'), up to its first await: only a live '/ci rescan' comment
\* on a pull request does anything
IssueComment(isRescan) ==
  /\ nComments < MaxComments
  /\ nComments' = nComments + 1
  /\ lookups' = IF isRescan THEN lookups + 1 ELSE lookups
  /\ UNCHANGED <<inProgress, passes, nEvents, arrivals, fetchedAt, started, finished, late>>
  /\ UNCHANGED notSerVars

\* app.on('issue_comment'): GitHub.getLatestTravisStatus has answered with the
\* latest Travis status of the pull request, or with none (found = FALSE);
\* processJobs is called when parseStatus finds a build in it
RescanLookupDone(found, status) ==
  /\ lookups > 0
  /\ ~found => status = Malformed
  /\ lookups' = lookups - 1
  /\ UNCHANGED <<inProgress, nEvents, nComments, arrivals, fetchedAt, started, finished, late>>
  /\ UNCHANGED notSerVars
  /\ LET buildInfo == IF ~found THEN NoBuild ELSE parseStatus(status) IN
     IF buildInfo = NoBuild
     THEN /\ UNCHANGED passes
     ELSE /\ passes' = [passes EXCEPT ![getProgressKey(buildInfo)] = Append(@, NewPass("rescan"))]

NextSer ==
  \/ \E payload \in Payloads : StatusEvent(payload)
  \/ \E k \in Keys, i \in 1..MaxComments + 1, jobs \in BOOLEAN : FetchDone(k, i, jobs)
  \/ \E k \in Keys, i \in 1..MaxComments + 1, ok \in BOOLEAN : DiffDone(k, i, ok)
  \/ \E k \in Keys, i \in 1..MaxComments + 1 : PublishDone(k, i)
  \/ \E isRescan \in BOOLEAN : IssueComment(isRescan)
  \/ \E found \in BOOLEAN, status \in Payloads : RescanLookupDone(found, status)

SpecSer == InitSer /\ [][NextSer]_vars

\* the app as loaded with MAX_IN_PROGRESS unset or set to a ceiling of 2 or more
InitCeiling ==
  /\ FlagIdle
  /\ SerIdle
  /\ ExtIdle
  /\ DiffIdle
  /\ CheckIdle
  /\ PassIdle
  /\ StoreIdle
  /\ HandlerIdle
  /\ ceiling \in DefaultMaxInProgress..MaxCeiling

SpecCeiling == InitCeiling /\ [][NextSer]_vars

\* Every request of a pass is answered (or fails) in the end, so the awaits of
\* processJobs return.
PassProgress(k) ==
  \E i \in 1..MaxComments + 1, b \in BOOLEAN :
    FetchDone(k, i, b) \/ DiffDone(k, i, b) \/ PublishDone(k, i)

FairSer == SpecSer /\ \A k \in Keys : WF_vars(PassProgress(k))

\* The status handlers alone: no issue_comment event is delivered
NextStatus ==
  \/ \E payload \in Payloads : StatusEvent(payload)
  \/ \E k \in Keys, i \in 1..MaxComments + 1, jobs \in BOOLEAN : FetchDone(k, i, jobs)
  \/ \E k \in Keys, i \in 1..MaxComments + 1, ok \in BOOLEAN : DiffDone(k, i, ok)
  \/ \E k \in Keys, i \in 1..MaxComments + 1 : PublishDone(k, i)

SpecStatus == InitSer /\ [][NextStatus]_vars

FairStatus == SpecStatus /\ \A k \in Keys : WF_vars(PassProgress(k))

----------------------------------------------------------------------------
\* The index.ts that gates with the Set `inProgress` and the Map `secondChance`,
\* beside the index.ts that counts

\* `secondChance.has(key)`
HasSecondChance(key) == key \in secondChance

\* app.on('status') with the two flags, from the event to the handler's first await
\* or its return
FlagStatus(payload) ==
  LET buildInfo == parseStatus(payload) IN
  IF buildInfo = NoBuild
  THEN UNCHANGED flagVars
  ELSE
    LET key == getProgressKey(buildInfo) IN
    IF key \notin inProgressSet
    THEN /\ inProgressSet' = inProgressSet \cup {key}
         /\ flagPass' = [flagPass EXCEPT ![key] = 1]
         /\ flagStarted' = [flagStarted EXCEPT ![key] = @ + 1]
         /\ UNCHANGED <<secondChance, flagSkipped>>
    ELSE IF ~HasSecondChance(key)
    THEN /\ secondChance' = secondChance \cup {key}
         /\ UNCHANGED <<inProgressSet, flagPass, flagStarted, flagSkipped>>
    ELSE /\ flagSkipped' = [flagSkipped EXCEPT ![key] = @ + 1]
         /\ UNCHANGED <<inProgressSet, secondChance, flagPass, flagStarted>>

\* the continuation of that handler when the processJobs call it awaits has settled
\* (fulfilled or rejected): the second call if a second chance is registered, else
\* the two deletes
FlagSettled(k) ==
  /\ flagPass[k] # 0
  /\ UNCHANGED flagSkipped
  /\ IF flagPass[k] = 1 /\ HasSecondChance(k)
     THEN /\ flagPass' = [flagPass EXCEPT ![k] = 2]
          /\ flagStarted' = [flagStarted EXCEPT ![k] = @ + 1]
          /\ UNCHANGED <<inProgressSet, secondChance>>
     ELSE /\ flagPass' = [flagPass EXCEPT ![k] = 0]
          /\ inProgressSet' = inProgressSet \ {k}
          /\ secondChance' = secondChance \ {k}
          /\ UNCHANGED flagStarted

\* a status event is delivered: each of the two handlers takes it
GatesStatusEvent(payload) ==
  /\ StatusHandled(payload)
  /\ FlagStatus(payload)
  /\ UNCHANGED notGatesVars

\* the pass in flight for key k settles, in each of the two that has one
GatesPassSettled(k) ==
  /\ StatusPasses(k) # {} \/ flagPass[k] # 0
  /\ IF StatusPasses(k) # {}
     THEN \E i \in StatusPasses(k) : PassSettled(k, i)
     ELSE UNCHANGED serVars
  /\ IF flagPass[k] # 0 THEN FlagSettled(k) ELSE UNCHANGED flagVars
  /\ UNCHANGED notGatesVars

NextGates ==
  \/ \E payload \in Payloads : GatesStatusEvent(payload)
  \/ \E k \in Keys : GatesPassSettled(k)

SpecGates == InitSer /\ [][NextGates]_vars

----------------------------------------------------------------------------
\* The event serializer: properties

\* C1: for every build key at most one reconciliation pass (a processJobs call) is
\* in flight at any moment, whatever events arrive; a follow-up pass starts only
\* after the running one has completed.
C1_OnePassPerKey == \A k \in Keys : Len(passes[k]) <= 1

EveryEventLeadsToFetch ==
  \A k \in Keys : (fetchedAt[k] < arrivals[k]) ~> (fetchedAt[k] = arrivals[k])

C3_BurstAtMostTwoPasses ==
  \A k \in Keys : (maxInProgress = 2 /\ ~late[k]) => started[k] <= 2

\* C3 witness: five events in the burst, two passes, and the handler is done.
C3_Witness ==
  \E k \in Keys :
    /\ arrivals[k] = 5 /\ ~late[k] /\ started[k] = 2
    /\ finished[k] = 2 /\ k \notin DOMAIN inProgress

\* C4: a stored pending count is an integer in 1..ceiling, and a build has an entry
\* exactly while the status handler's loop is running a pass for it (one at most).
C4_PendingCountRange ==
  \A k \in Keys :
    /\ k \in DOMAIN inProgress => inProgress[k] \in 1..maxInProgress
    /\ k \in DOMAIN inProgress <=> StatusPasses(k) # {}
    /\ Cardinality(StatusPasses(k)) <= 1

\* C4 witness: a count at the ceiling, in a follow-up pass' time.
C4_Witness ==
  \E k \in Keys :
    k \in DOMAIN inProgress /\ inProgress[k] = maxInProgress /\ finished[k] > 0

\* C5: a status event of build k finds no entry (the count becomes 1 and the handler
\* starts a pass), a count below the ceiling (the count grows by 1, no pass is
\* started), or a count at the ceiling (the event is dropped: count, passes and
\* everything else the handlers keep stay as they are, so nothing can revisit it).
C5_ArrivalStep ==
  \A k \in Keys :
    arrivals'[k] = arrivals[k] + 1 =>
      IF k \notin DOMAIN inProgress
      THEN /\ k \in DOMAIN inProgress' /\ inProgress'[k] = 1
           /\ passes'[k] = Append(passes[k], [by |-> "status", phase |-> "fetch"])
           /\ started'[k] = started[k] + 1
      ELSE IF inProgress[k] < maxInProgress
      THEN /\ k \in DOMAIN inProgress' /\ inProgress'[k] = inProgress[k] + 1
           /\ passes' = passes /\ started' = started
      ELSE /\ inProgress' = inProgress
           /\ passes' = passes /\ started' = started /\ lookups' = lookups

C5_Arrival == [][C5_ArrivalStep]_vars

\* C5 witness: the third event of a burst was dropped at the ceiling.
C5_Witness ==
  \E k \in Keys :
    /\ arrivals[k] = 3 /\ started[k] = 1 /\ finished[k] = 0
    /\ k \in DOMAIN inProgress /\ inProgress[k] = maxInProgress

\* C6: when a pass of the status handler completes, the count goes down by exactly
\* 1; a result above 0 starts exactly one more pass at once, a result of 0 deletes
\* the entry, and then the handler starts no pass for the build before a new status
\* event arrives.
C6_CompletionStep ==
  \A k \in Keys :
    /\ finished'[k] = finished[k] + 1 =>
         /\ k \in DOMAIN inProgress
         /\ IF inProgress[k] - 1 > 0
            THEN /\ k \in DOMAIN inProgress' /\ inProgress'[k] = inProgress[k] - 1
                 /\ started'[k] = started[k] + 1
                 /\ Cardinality(StatusPasses(k)') = 1
            ELSE /\ k \notin DOMAIN inProgress'
                 /\ started'[k] = started[k]
                 /\ StatusPasses(k)' = {}
    /\ (k \notin DOMAIN inProgress /\ started'[k] # started[k]) =>
         arrivals'[k] = arrivals[k] + 1

C6_Completion == [][C6_CompletionStep]_vars

\* C6 witness: a pass was rerun after a coalesced event and the entry was deleted
\* after the rerun.
C6_Witness ==
  \E k \in Keys :
    finished[k] = 2 /\ started[k] = 2 /\ arrivals[k] = 2 /\ k \notin DOMAIN inProgress

\* C27: a status event whose payload gives no build identity (it cannot be
\* destructured, or its target_url holds no build number or no Travis host) is
\* ignored: no pending count is created or changed, no pass is started (so no job
\* fetch and no check operation follows from it), and no history of a key moves.
C27_NoIdentity(p) == ~p.wellFormed \/ p.buildId = None \/ p.domain = None
C27_Touched ==
  \/ inProgress' # inProgress
  \/ passes' # passes
  \/ lookups' # lookups
  \/ <<arrivals, fetchedAt, started, finished, late>>' #
       <<arrivals, fetchedAt, started, finished, late>>
C27_MalformedIgnored ==
  [][ (nEvents' # nEvents /\ C27_Touched) =>
        \A p \in Payloads : C27_NoIdentity(p) => ~StatusEvent(p) ]_vars

\* C27 witness: two status events have been delivered while one pass is in flight,
\* and only one of them carried a build: the other left the count at 1.
C27_Witness ==
  \E k \in Keys :
    /\ nEvents = 2
    /\ arrivals[k] = 1
    /\ \A o \in Keys \ {k} : arrivals[o] = 0
    /\ k \in DOMAIN inProgress /\ inProgress[k] = 1
    /\ Len(passes[k]) = 1

\* C28: whatever the ceiling, the status events of a build that are coalesced
\* while its first pass is in flight are drained by one follow-up pass: events
\* that all arrive before the first pass completes start at most two passes.
C28_OneRerunForAnyCeiling ==
  \A k \in Keys : ~late[k] => started[k] <= 2

----------------------------------------------------------------------------
\* travis.ts: text, as sequences of one-character strings

Whitespace == {" ", "\t", "\r", "\n"}

RECURSIVE TrimStart(_)
TrimStart(s) == IF s # <<>> /\ Head(s) \in Whitespace THEN TrimStart(Tail(s)) ELSE s

RECURSIVE TrimEnd(_)
TrimEnd(s) ==
  IF s # <<>> /\ s[Len(s)] \in Whitespace THEN TrimEnd(SubSeq(s, 1, Len(s) - 1)) ELSE s

\* Variants of the text operations below, as slips of the code would make them
AppendOutputWithNewline(out, trimmed) == out \o <<"\n">> \o trimmed
AppendOutputUnlessMarker(out, trimmed) ==
  IF \E i \in 0..(Len(trimmed) - 17) : SubSeq(trimmed, i + 1, i + 17) =
       <<"Y", "o", "u", "r", " ", "b", "u", "i", "l", "d", " ", "e", "x", "i", "t", "e", "d">>
  THEN out ELSE out \o trimmed

\* String.prototype.trim
Trim(line) == TrimEnd(TrimStart(line))

\* String.prototype.includes
Includes(s, sub) ==
  \E i \in 0..(Len(s) - Len(sub)) : SubSeq(s, i + 1, i + Len(sub)) = sub

\* the literals of getJobOutputImpl
OpenFenceText == <<"-", "-", "-", "o", "u", "t", "p", "u", "t">>
CloseFenceText == <<"-", "-", "-">>
ExitedText == <<"Y", "o", "u", "r", " ", "b", "u", "i", "l", "d", " ",
                "e", "x", "i", "t", "e", "d">>

\* The log lines of the model: a line of other output (the text 1), the two fences
\* with blanks around them, a one-line JSON object, and Travis' last line.
NoiseLine == <<" ", "1">>
OpenLine == <<" ">> \o OpenFenceText
CloseLine == CloseFenceText \o <<"\t">>
JsonLine == <<"{", "\"", "a", "\"", ":", "1", "}", " ">>
ExitedLine == ExitedText \o <<" ", "w", "i", "t", "h", " ", "0", ".">>
LogLines == {NoiseLine, OpenLine, CloseLine, JsonLine, ExitedLine}

----------------------------------------------------------------------------
\* JSON.parse, for numbers, strings and objects

\* a JavaScript value: undefined, a number, a string or an object (its members in
\* order, each <<key, value>>)
JV(t, n, str, m) == [t |-> t, n |-> n, s |-> str, m |-> m]
Undefined == JV("undefined", 0, <<>>, <<>>)

Digits == {"0", "1", "2", "3", "4", "5", "6", "7", "8", "9"}
DigitValue(c) == CHOOSE d \in 0..9 : <<"0", "1", "2", "3", "4", "5", "6", "7", "8", "9">>[d + 1] = c

ParseFail == [ok |-> FALSE, val |-> Undefined, next |-> 0]
ParseOk(v, next) == [ok |-> TRUE, val |-> v, next |-> next]

RECURSIVE SkipWs(_, _)
SkipWs(s, i) == IF i <= Len(s) /\ s[i] \in Whitespace THEN SkipWs(s, i + 1) ELSE i

\* a number: 0, or a digit other than 0 followed by digits
RECURSIVE ParseDigits(_, _, _)
ParseDigits(s, i, acc) ==
  IF i <= Len(s) /\ s[i] \in Digits
  THEN ParseDigits(s, i + 1, 10 * acc + DigitValue(s[i]))
  ELSE ParseOk(JV("number", acc, <<>>, <<>>), i)

ParseNumber(s, i) ==
  IF s[i] = "0" THEN ParseOk(JV("number", 0, <<>>, <<>>), i + 1)
  ELSE ParseDigits(s, i, 0)

\* a string: from the quote at i to the next quote; no control character inside
ParseString(s, i) ==
  IF i > Len(s) \/ s[i] # "\"" THEN ParseFail
  ELSE LET ends == {j \in (i + 1)..Len(s) : s[j] = "\""} IN
       IF ends = {} THEN ParseFail
       ELSE LET j == CHOOSE e \in ends : \A f \in ends : e <= f
                body == SubSeq(s, i + 1, j - 1)
            IN IF \E x \in 1..Len(body) : body[x] \in {"\t", "\r", "\n"}
               THEN ParseFail
               ELSE ParseOk(JV("string", 0, body, <<>>), j + 1)

\* a later member replaces an earlier one of the same key
PutMember(m, key, v) ==
  IF \E x \in 1..Len(m) : m[x][1] = key
  THEN [x \in 1..Len(m) |-> IF m[x][1] = key THEN <<key, v>> ELSE m[x]]
  ELSE Append(m, <<key, v>>)

RECURSIVE ParseValue(_, _)
RECURSIVE ParseMembers(_, _, _)

ParseValue(s, i) ==
  IF i > Len(s) THEN ParseFail
  ELSE IF s[i] \in Digits THEN ParseNumber(s, i)
  ELSE IF s[i] = "\"" THEN ParseString(s, i)
  ELSE IF s[i] = "{"
  THEN LET j == SkipWs(s, i + 1) IN
       IF j <= Len(s) /\ s[j] = "}"
       THEN ParseOk(JV("object", 0, <<>>, <<>>), j + 1)
       ELSE ParseMembers(s, j, <<>>)
  ELSE ParseFail

ParseMembers(s, i, acc) ==
  LET k == ParseString(s, i) IN
  IF ~k.ok THEN ParseFail
  ELSE
    LET c == SkipWs(s, k.next) IN
    IF c > Len(s) \/ s[c] # ":" THEN ParseFail
    ELSE
      LET v == ParseValue(s, SkipWs(s, c + 1)) IN
      IF ~v.ok THEN ParseFail
      ELSE
        LET e == SkipWs(s, v.next)
            acc2 == PutMember(acc, k.val.s, v.val)
        IN
        IF e > Len(s) THEN ParseFail
        ELSE IF s[e] = "}" THEN ParseOk(JV("object", 0, <<>>, acc2), e + 1)
        ELSE IF s[e] = "," THEN ParseMembers(s, SkipWs(s, e + 1), acc2)
        ELSE ParseFail

\* JSON.parse(text): ok = FALSE stands for the SyntaxError it throws
JSONparse(text) ==
  LET r == ParseValue(text, SkipWs(text, 1)) IN
  IF r.ok /\ SkipWs(text, r.next) > Len(text)
  THEN [ok |-> TRUE, val |-> r.val]
  ELSE [ok |-> FALSE, val |-> Undefined]

----------------------------------------------------------------------------
\* travis.ts: Travis.getJobOutput and Travis.getJobOutputImpl

TRIES == 10

\* `setTimeoutAsync(3_000)`: the milliseconds of one wait
BACKOFF == 3000

\* what resolve / reject is called with
Fulfilled(v) == [ok |-> TRUE, message |-> "", val |-> v]
Rejected(message) == [ok |-> FALSE, message |-> message, val |-> Undefined]
NoResult == Rejected("none")

\* new Error('LogStreamIncomplete'); the SyntaxError of JSON.parse; the error the
\* line stream emits; the Error getJobOutput ends with
LogStreamIncomplete == Rejected("LogStreamIncomplete")
SyntaxError == Rejected("SyntaxError")
StreamError == Rejected("StreamError")
NeverCompleted == Rejected("never completed")

\* Variants of the tests below, as slips of the code would make them
parserInProgressInitialOnly(st) == st = "initial"
HasExitedExact(trimmed) == trimmed = ExitedText

parserInProgressNotComplete(st) == st # "block-complete"
RetryableAlways(e) == TRUE
TriesLeftOffByOne(t) == t > 1

\* function inProgress (state: ParserState)
parserInProgress(st) == st = "initial" \/ st = "inside-block"

\* `trimmed.includes('Your build exited')`
HasExited(trimmed) == Includes(trimmed, ExitedText)

\* `outputString += trimmed`
AppendOutput(out, trimmed) == out \o trimmed

\* `e.message === 'LogStreamIncomplete'`
Retryable(e) == e.message = "LogStreamIncomplete"

\* A variant of TriesLeft, as a slip of the code would make it
TriesLeftAtZero(t) == t >= 0

\* `tries > 0`, the test of the while loop and of the wait before the next try
TriesLeft(t) == t > 0

\* A variant of clearTimeout, as a slip of the code would make it
clearTimeoutForgotten(d) == d

\* clearTimeout(deadline)
clearTimeout(d) == IF d = "armed" THEN "cleared" ELSE d

\* `resolve(JSON.parse(outputString))` in its try / catch
ParseSettlement(text) ==
  LET r == JSONparse(text) IN IF r.ok THEN Fulfilled(r.val) ELSE SyntaxError

\* the lines an attempt is given at most
LineBound == IF attempts <= 1 THEN MaxLines ELSE MaxRetryLines

\* a getJobOutputImpl call up to the return of its promise: the request is made and
\* the deadline set
NewAttempt ==
  /\ state' = "initial"
  /\ outputString' = <<>>
  /\ lineCount' = 0
  /\ deadline' = "armed"
  /\ aborted' = FALSE
  /\ ended' = FALSE
  /\ closed' = FALSE
  /\ errored' = FALSE
  /\ settled' = <<>>
  /\ seen' = <<>>

\* getJobOutput has been called and awaits its first getJobOutputImpl call
InitExt ==
  /\ FlagIdle
  /\ CeilingDefault
  /\ HandlerIdle
  /\ StoreIdle
  /\ SerIdle
  /\ DiffIdle
  /\ CheckIdle
  /\ PassIdle
  /\ state = "initial"
  /\ outputString = <<>>
  /\ lineCount = 0
  /\ deadline = "armed"
  /\ aborted = FALSE
  /\ ended = FALSE
  /\ closed = FALSE
  /\ errored = FALSE
  /\ settled = <<>>
  /\ tries = TRIES
  /\ wpc = "awaiting"
  /\ wresult = NoResult
  /\ attempts = 1
  /\ seen = <<>>

\* .on('data'): the stream gives a line.  No line comes after 'end', 'close' or
\* 'error', nor after the deadline has aborted the request; the lines of a chunk
\* that follow a line at which the handler aborts still come.
Data(line) ==
  /\ wpc # "idle"
  /\ ~ended /\ ~closed /\ ~errored /\ deadline # "fired"
  /\ lineCount < LineBound
  /\ lineCount' = lineCount + 1
  /\ seen' = Append(seen, line)
  /\ UNCHANGED <<ended, closed, errored, tries, wpc, wresult, attempts>>
  /\ UNCHANGED notExtVars
  /\ IF ~parserInProgress(state)
     THEN UNCHANGED <<state, outputString, deadline, aborted, settled>>
     ELSE
       LET trimmed == Trim(line) IN
       IF state = "initial" /\ trimmed = OpenFenceText
       THEN /\ state' = "inside-block"
            /\ UNCHANGED <<outputString, deadline, aborted, settled>>
       ELSE IF state = "inside-block" /\ trimmed = CloseFenceText
       THEN /\ state' = "block-complete"
            /\ deadline' = clearTimeout(deadline)
            /\ aborted' = TRUE
            /\ settled' = Append(settled, ParseSettlement(outputString))
            /\ UNCHANGED outputString
       ELSE IF state = "inside-block"
       THEN /\ outputString' = AppendOutput(outputString, trimmed)
            /\ UNCHANGED <<state, deadline, aborted, settled>>
       ELSE IF HasExited(trimmed)
       THEN /\ state' = "stream-finished"
            /\ deadline' = clearTimeout(deadline)
            /\ aborted' = TRUE
            /\ settled' = Append(settled, Fulfilled(Undefined))
            /\ UNCHANGED outputString
       ELSE UNCHANGED <<state, outputString, deadline, aborted, settled>>

\* .on('error')
Error ==
  /\ wpc # "idle"
  /\ ~errored /\ ~closed
  /\ errored' = TRUE
  /\ UNCHANGED <<outputString, lineCount, ended, closed, tries, wpc, wresult, attempts, seen>>
  /\ UNCHANGED notExtVars
  /\ IF parserInProgress(state)
     THEN /\ state' = "error"
          /\ deadline' = clearTimeout(deadline)
          /\ aborted' = TRUE
          /\ settled' = Append(settled, StreamError)
     ELSE UNCHANGED <<state, deadline, aborted, settled>>

\* .on('close')
Close ==
  /\ wpc # "idle"
  /\ ~closed
  /\ closed' = TRUE
  /\ UNCHANGED <<outputString, lineCount, aborted, ended, errored, tries, wpc, wresult,
                 attempts, seen>>
  /\ UNCHANGED notExtVars
  /\ IF parserInProgress(state)
     THEN /\ state' = "closed"
          /\ deadline' = clearTimeout(deadline)
          /\ settled' = Append(settled, LogStreamIncomplete)
     ELSE UNCHANGED <<state, deadline, settled>>

\* .on('end')
End ==
  /\ wpc # "idle"
  /\ ~ended /\ ~closed
  /\ ended' = TRUE
  /\ UNCHANGED <<outputString, lineCount, aborted, closed, errored, tries, wpc, wresult,
                 attempts, seen>>
  /\ UNCHANGED notExtVars
  /\ IF parserInProgress(state)
     THEN /\ state' = "closed"
          /\ deadline' = clearTimeout(deadline)
          /\ settled' = Append(settled, LogStreamIncomplete)
     ELSE UNCHANGED <<state, deadline, settled>>

\* the callback of setTimeout(..., 30_000)
Deadline ==
  /\ deadline = "armed"
  /\ deadline' = "fired"
  /\ UNCHANGED <<outputString, lineCount, ended, closed, errored, tries, wpc, wresult,
                 attempts, seen>>
  /\ UNCHANGED notExtVars
  /\ IF parserInProgress(state)
     THEN /\ state' = "error"
          /\ aborted' = TRUE
          /\ settled' = Append(settled, LogStreamIncomplete)
     ELSE UNCHANGED <<state, aborted, settled>>

\* getJobOutput: the awaited promise has settled (the first call of resolve / reject
\* decides); the loop body runs up to the next await, the return or the throw
ImplSettled ==
  /\ wpc = "awaiting"
  /\ settled # <<>>
  /\ UNCHANGED <<state, outputString, lineCount, deadline, aborted, ended, closed, errored,
                 settled, attempts, seen>>
  /\ UNCHANGED notExtVars
  /\ LET r == settled[1] IN
     IF r.ok
     THEN /\ wpc' = "returned"
          /\ wresult' = r
          /\ UNCHANGED tries
     ELSE IF Retryable(r)
     THEN /\ tries' = tries - 1
          /\ IF TriesLeft(tries')
             THEN /\ wpc' = "backoff"
                  /\ UNCHANGED wresult
             ELSE /\ wpc' = "thrown"
                  /\ wresult' = NeverCompleted
     ELSE /\ wpc' = "thrown"
          /\ wresult' = r
          /\ UNCHANGED tries

\* getJobOutput: the 3 s of setTimeoutAsync are over, the loop calls getJobOutputImpl
BackoffOver ==
  /\ wpc = "backoff"
  /\ wpc' = "awaiting"
  /\ attempts' = attempts + 1
  /\ NewAttempt
  /\ UNCHANGED <<tries, wresult>>
  /\ UNCHANGED notExtVars

NextExt ==
  \/ \E line \in LogLines : Data(line)
  \/ Error
  \/ Close
  \/ End
  \/ Deadline
  \/ ImplSettled
  \/ BackoffOver

SpecExt == InitExt /\ [][NextExt]_vars

\* The deadline timer fires unless cleared, a settled promise resumes getJobOutput,
\* and the timer of the 3 s wait fires.
FairExt ==
  /\ SpecExt
  /\ WF_vars(Deadline)
  /\ WF_vars(ImplSettled)
  /\ WF_vars(BackoffOver)

\* getJobOutputImpl as a loop over the lines of a log read whole (the for loop over
\* splitIter(logData)): what the call returns or throws
RECURSIVE ScanLines(_, _, _, _)
ScanLines(lines, n, blockStarted, out) ==
  IF n > Len(lines) THEN LogStreamIncomplete
  ELSE
    LET trimmed == Trim(lines[n]) IN
    IF ~blockStarted /\ trimmed = OpenFenceText THEN ScanLines(lines, n + 1, TRUE, out)
    ELSE IF blockStarted /\ trimmed = CloseFenceText THEN ParseSettlement(out)
    ELSE IF blockStarted THEN ScanLines(lines, n + 1, TRUE, AppendOutput(out, trimmed))
    ELSE IF HasExited(trimmed) THEN Fulfilled(Undefined)
    ELSE ScanLines(lines, n + 1, FALSE, out)

\* A variant of getJobOutputImplWhole, as a slip of the code would make it
getJobOutputImplBlockStarted(lines) == ScanLines(lines, 1, TRUE, <<>>)

getJobOutputImplWhole(lines) == ScanLines(lines, 1, FALSE, <<>>)

----------------------------------------------------------------------------
\* The log scanner: properties

\* the settlements the specification of the scanner lists: a parsed value or
\* 'no block' (fulfilled), StreamIncomplete, ParseError
ListedOutcome(r) == r.ok \/ r = LogStreamIncomplete \/ r = SyntaxError

\* C7: every extraction call settles exactly once, with a parsed JSON value, 'no
\* block', StreamIncomplete or ParseError, under every interleaving of line, end,
\* close, stream-error and deadline events: never twice, and never unsettled once
\* the stream has ended or closed or the deadline has elapsed.
C7_SettlesOnceAsListed ==
  /\ Len(settled) <= 1
  /\ \A x \in 1..Len(settled) : ListedOutcome(settled[x])
  /\ (ended \/ closed \/ deadline = "fired") => Len(settled) = 1

\* What holds of C7: one settlement at most, present exactly when the parser has left
\* its two scanning states, and present once the stream is over or the deadline gone.
SettlesOnce ==
  /\ Len(settled) <= 1
  /\ \A x \in 1..Len(settled) : ListedOutcome(settled[x]) \/ settled[x] = StreamError
  /\ (settled # <<>>) <=> ~parserInProgress(state)
  /\ (ended \/ closed \/ errored \/ deadline = "fired") => Len(settled) = 1

\* the text of the lines strictly between lines a and b, trimmed and joined
RECURSIVE JoinTrimmed(_, _, _)
JoinTrimmed(lines, a, b) ==
  IF a + 1 >= b THEN <<>>
  ELSE JoinTrimmed(lines, a, b - 1) \o TrimEnd(TrimStart(lines[b - 1]))

IsOpenFence(line) == TrimEnd(TrimStart(line)) = <<"-", "-", "-", "o", "u", "t", "p", "u", "t">>
IsCloseFence(line) == TrimEnd(TrimStart(line)) = <<"-", "-", "-">>
IsExited(line) == Includes(line, ExitedText)

Min(S) == CHOOSE x \in S : \A y \in S : x <= y

\* C8: when the lines read hold an opening fence followed later by a closing fence,
\* with no completion-marker line before the opening fence, the call settles with
\* the JSON parse (value or SyntaxError) of the trimmed lines strictly between the
\* two fences, joined without separators, whatever comes before and after them;
\* the loop over a whole log answers the same.
C8_FencedBlockParsed ==
  LET opens == {i \in 1..Len(seen) : IsOpenFence(seen[i])} IN
  opens # {} =>
    LET a == Min(opens)
        closes == {j \in (a + 1)..Len(seen) : IsCloseFence(seen[j])}
    IN
    (closes # {} /\ \A h \in 1..(a - 1) : ~IsExited(seen[h])) =>
      LET b == Min(closes)
          parsed == JSONparse(JoinTrimmed(seen, a, b))
          expected == IF parsed.ok THEN Fulfilled(parsed.val) ELSE SyntaxError
      IN
      /\ state = "block-complete"
      /\ settled = <<expected>>
      /\ getJobOutputImplWhole(seen) = expected

\* C8 witness: noise, ---output, {"a":1}, ---, trailing has been read and the call
\* is resolved with {a: 1}.
C8_Witness ==
  /\ seen = <<NoiseLine, OpenLine, JsonLine, CloseLine, NoiseLine>>
  /\ settled = <<Fulfilled(JV("object", 0, <<>>,
                             << <<(<<"a">>), JV("number", 1, <<>>, <<>>)>> >>))>>

\* C9: a line containing 'Your build exited', read while the parser is in its
\* initial state, resolves the call with undefined ('no block'); getJobOutput then
\* returns undefined: it does not decrement tries, wait or call getJobOutputImpl
\* again.
C9_Step ==
  /\ (lineCount' = lineCount + 1 /\ state = "initial" /\ IsExited(seen'[Len(seen')])) =>
       /\ state' = "stream-finished"
       /\ settled' = <<Fulfilled(Undefined)>>
  /\ (wpc = "awaiting" /\ wpc' # "awaiting" /\ state = "stream-finished") =>
       /\ wpc' = "returned" /\ wresult' = Fulfilled(Undefined)
       /\ tries' = tries /\ attempts' = attempts
  /\ wpc = "returned" => (wpc' = "returned" /\ attempts' = attempts /\ wresult' = wresult)

C9_ExitedMeansNoBlock == [][C9_Step]_vars

\* C9 witness: getJobOutput has returned undefined on its first attempt, after the
\* marker line.
C9_Witness ==
  /\ wpc = "returned" /\ wresult = Fulfilled(Undefined)
  /\ state = "stream-finished" /\ attempts = 1 /\ tries = TRIES
  /\ seen = <<NoiseLine, ExitedLine>>

\* C10: 'end', 'close' or the deadline, coming while the parser is initial or
\* inside-block (a fence opened and never closed included), rejects the call with
\* LogStreamIncomplete.
C10_Step ==
  ( /\ state \in {"initial", "inside-block"}
    /\ \/ ~ended /\ ended'
       \/ ~closed /\ closed'
       \/ deadline = "armed" /\ deadline' = "fired" ) =>
  ( /\ settled' = <<LogStreamIncomplete>>
    /\ state' \notin {"initial", "inside-block"} )

C10_EndMeansIncomplete == [][C10_Step]_vars

\* C10 witness: the stream ended inside a fence that was never closed.
C10_Witness ==
  /\ seen = <<OpenLine, JsonLine>>
  /\ ended
  /\ settled = <<LogStreamIncomplete>>

\* C11: the parser's terminal states are absorbing: once the state is
\* block-complete, stream-finished, error or closed, no later line, end, close,
\* stream-error or deadline event of the same call changes the state, the payload
\* text gathered, or the settlement already made; and what getJobOutput has
\* returned or thrown stays.
C11_Step ==
  /\ ( /\ state \in {"block-complete", "stream-finished", "error", "closed"}
       /\ attempts' = attempts ) =>
     ( /\ state' = state
       /\ outputString' = outputString
       /\ settled' = settled )
  /\ wpc \in {"returned", "thrown"} => (wpc' = wpc /\ wresult' = wresult)

C11_TerminalAbsorbing == [][C11_Step]_vars

\* C11 witness: after the marker line resolved the call, a fence line, a stream
\* error, 'end' and 'close' have all come, and the settlement is the one made.
C11_Witness ==
  /\ seen = <<ExitedLine, OpenLine>>
  /\ errored /\ ended /\ closed
  /\ state = "stream-finished"
  /\ settled = <<Fulfilled(Undefined)>>

\* C12: getJobOutput makes at most 10 calls of getJobOutputImpl and always ends.
\* With N = attempts - 1 calls failed with LogStreamIncomplete before the current
\* one: an outcome of the current call that is not LogStreamIncomplete is what
\* getJobOutput returns or throws (N < 10); a LogStreamIncomplete of the current
\* call leads to the wait and another call when N + 1 < 10, and to the 'never
\* completed' error when N + 1 = 10.
C12_Step ==
  /\ attempts \in 1..10
  /\ tries = 10 - (attempts - 1) - (IF wpc \in {"backoff"} \/ wresult.message = "never completed" THEN 1 ELSE 0)
  /\ attempts' # attempts => (attempts' = attempts + 1 /\ settled = <<Rejected("LogStreamIncomplete")>>)
  /\ (wpc = "awaiting" /\ wpc' # "awaiting") =>
       LET r == settled[1] IN
       IF r # Rejected("LogStreamIncomplete")
       THEN /\ wpc' = (IF r.ok THEN "returned" ELSE "thrown")
            /\ wresult' = r
       ELSE IF attempts < 10
       THEN wpc' = "backoff"
       ELSE wpc' = "thrown" /\ wresult' = Rejected("never completed")

C12_Ended == wpc \in {"returned", "thrown"}

C12_RetryBound == [][C12_Step]_vars /\ <>C12_Ended

\* C12 witness: nine calls failed with LogStreamIncomplete and the tenth found the
\* block: getJobOutput returns its value.
C12_Witness ==
  /\ attempts = 10
  /\ wpc = "returned"
  /\ wresult.val.t = "object"

\* the other end of C12: ten calls failed, getJobOutput throws 'never completed'
C12_WitnessExhausted ==
  /\ attempts = 10
  /\ wpc = "thrown"
  /\ wresult = NeverCompleted

\* C13: a failure of a call other than LogStreamIncomplete (the SyntaxError of
\* malformed JSON inside the fence in particular) is thrown by getJobOutput at
\* once: tries is not decremented, no wait is entered and no further call made.
C13_Step ==
  /\ ( /\ wpc = "awaiting" /\ wpc' # "awaiting"
       /\ ~settled[1].ok
       /\ settled[1].message # "LogStreamIncomplete" ) =>
     ( /\ wpc' = "thrown"
       /\ wresult' = settled[1]
       /\ tries' = tries
       /\ attempts' = attempts )
  /\ wpc = "thrown" => (wpc' = "thrown" /\ attempts' = attempts /\ wresult' = wresult)

C13_OtherFailuresPropagate == [][C13_Step]_vars

\* C13 witness: the fence of the second call held no JSON; getJobOutput has thrown
\* the SyntaxError with 9 tries left.
C13_Witness ==
  /\ attempts = 2
  /\ seen = <<OpenLine, ExitedLine, CloseLine>>
  /\ wpc = "thrown"
  /\ wresult = SyntaxError
  /\ tries = TRIES - 1

----------------------------------------------------------------------------
\* github.ts: GitHub.jobsToUpdate, getStatus and getChecksUpdateParams

\* The jobs of the model.  A JobInfo is given its jobId, name, state and
\* checkRunId: jobsToUpdate and getChecksUpdateParams read nothing else that
\* differs between two jobs.  getJobInfo sets no checkRunId; a stored job has the
\* one the status handler wrote after createCheck, if any.
JobIds == {"1", "2"}
JobNames == {"a", "b"}
DiffStates == {"created", "started", "passed", "failed"}
CheckRunIds == {"c7"}

JobInfo(jobId, name, st, checkRunId) ==
  [jobId |-> jobId, name |-> name, state |-> st, checkRunId |-> checkRunId]

\* `undefined`, as Array.prototype.find answers when nothing matches
NoJob == JobInfo(None, None, None, None)

StoredJobs ==
  {JobInfo(j, n, st, c) : j \in JobIds, n \in JobNames, st \in DiffStates,
                          c \in CheckRunIds \cup {None}}
FetchedJobs == {JobInfo(j, n, st, None) : j \in JobIds, n \in JobNames, st \in DiffStates}

\* the arrays of at most two jobs of S, no jobId twice
JobLists(S) ==
  {<<>>} \cup {<<a>> : a \in S}
         \cup {<<x[1], x[2]>> : x \in {y \in S \X S : y[1].jobId # y[2].jobId}}

\* Variants of the definitions below, as slips of the code would make them
ChangedAlways(current, previous) == TRUE

ChangedStatusOnly(current, previous) ==
  (IF current.state \in {"passed", "failed", "errored", "canceled"} THEN "completed"
   ELSE IF current.state = "started" THEN "in_progress" ELSE "queued")
  # (IF previous.state \in {"passed", "failed", "errored", "canceled"} THEN "completed"
     ELSE IF previous.state = "started" THEN "in_progress" ELSE "queued")
FindJobAfterFirst(jobs, jobId) ==
  LET hits == {i \in 2..Len(jobs) : jobs[i].jobId = jobId} IN
  IF hits = {} THEN NoJob ELSE jobs[CHOOSE i \in hits : \A h \in hits : i <= h]

\* GitHub.FINISHED_STATES
FINISHED_STATES == {"passed", "failed", "errored", "canceled"}

\* GitHub.getStatus (the same text in every version of github.ts)
getStatus(jobInfo) ==
  IF jobInfo.state \in FINISHED_STATES THEN "completed"
  ELSE IF jobInfo.state = "started" THEN "in_progress"
  ELSE "queued"

\* `oldJobs.find(j => j.jobId === current.jobId)`
FindJob(jobs, jobId) ==
  LET hits == {i \in 1..Len(jobs) : jobs[i].jobId = jobId} IN
  IF hits = {} THEN NoJob ELSE jobs[CHOOSE i \in hits : \A h \in hits : i <= h]

\* the test of jobsToUpdate's `else if`
Changed(current, previous) ==
  getStatus(current) # getStatus(previous) \/ current.name # previous.name

\* the for loop of jobsToUpdate, from newJobs[n] on
RECURSIVE DiffFrom(_, _, _, _)
DiffFrom(old, new, n, acc) ==
  IF n > Len(new) THEN acc
  ELSE
    LET current == new[n]
        previous == FindJob(old, current.jobId)
    IN
    IF previous = NoJob
    THEN DiffFrom(old, new, n + 1, [acc EXCEPT !.create = Append(@, current)])
    ELSE IF Changed(current, previous)
    THEN DiffFrom(old, new, n + 1, [acc EXCEPT !.update = Append(@, current)])
    ELSE DiffFrom(old, new, n + 1, acc)

jobsToUpdate(old, new) == DiffFrom(old, new, 1, [create |-> <<>>, update |-> <<>>])

\* GitHub.getChecksUpdateParams: what of it tells the check and its new status
getChecksUpdateParams(jobInfo) ==
  [check_run_id |-> jobInfo.checkRunId, name |-> jobInfo.name, status |-> getStatus(jobInfo)]

\* the status handler holds store.replace's answer and the fetched jobs
InitDiff ==
  /\ FlagIdle
  /\ CeilingDefault
  /\ HandlerIdle
  /\ StoreIdle
  /\ SerIdle
  /\ ExtIdle
  /\ CheckIdle
  /\ PassIdle
  /\ oldJobs \in JobLists(StoredJobs)
  /\ newJobs \in JobLists(FetchedJobs)
  /\ diff = [create |-> <<>>, update |-> <<>>]
  /\ requests = <<>>
  /\ dpc = "called"

\* `const diff = github.jobsToUpdate(previous, jobs)`
JobsToUpdate ==
  /\ dpc = "called"
  /\ diff' = jobsToUpdate(oldJobs, newJobs)
  /\ dpc' = "diffed"
  /\ UNCHANGED <<oldJobs, newJobs, requests>>
  /\ UNCHANGED notDiffVars

\* `diff.update.map(async j => { await github.updateCheck(j) })`, up to the
\* payloads updateCheck builds
UpdateChecks ==
  /\ dpc = "diffed"
  /\ requests' = [i \in 1..Len(diff.update) |-> getChecksUpdateParams(diff.update[i])]
  /\ dpc' = "built"
  /\ UNCHANGED <<oldJobs, newJobs, diff>>
  /\ UNCHANGED notDiffVars

NextDiff ==
  \/ JobsToUpdate
  \/ UpdateChecks

SpecDiff == InitDiff /\ [][NextDiff]_vars

----------------------------------------------------------------------------
\* The diff: properties

\* the derived status, as the specification gives it
DerivedStatus(st) ==
  CASE st \in {"passed", "failed", "errored", "canceled"} -> "completed"
    [] st = "started" -> "in_progress"
    [] OTHER -> "queued"

\* the positions at which the array holds the record
Positions(arr, rec) == {i \in 1..Len(arr) : arr[i] = rec}

\* C14: for previous and current record sets, each unique by jobId, diff puts every
\* current record in exactly one of create, update or neither, create and update
\* being disjoint and holding current records only; a current record is in neither
\* iff previous holds a record of the same jobId, derived status and name; it is
\* in create iff previous holds no record of its jobId.
C14_DiffPartition ==
  dpc # "called" =>
    /\ \A i \in 1..Len(newJobs) :
         LET c == newJobs[i]
             inCreate == Cardinality(Positions(diff.create, c))
             inUpdate == Cardinality(Positions(diff.update, c))
             same == {p \in 1..Len(oldJobs) : oldJobs[p].jobId = c.jobId}
         IN
         /\ inCreate + inUpdate <= 1
         /\ (inCreate + inUpdate = 0) <=>
              \E p \in same : /\ DerivedStatus(oldJobs[p].state) = DerivedStatus(c.state)
                              /\ oldJobs[p].name = c.name
         /\ (inCreate = 1) <=> (same = {})
    /\ \A x \in 1..Len(diff.create) : Positions(newJobs, diff.create[x]) # {}
    /\ \A x \in 1..Len(diff.update) : Positions(newJobs, diff.update[x]) # {}
    /\ \A x \in 1..Len(diff.create) : Positions(diff.update, diff.create[x]) = {}

\* C14 witness: of two current jobs, one is new and created, the other renamed and
\* updated.
C14_Witness ==
  /\ dpc = "diffed"
  /\ Len(oldJobs) = 1 /\ Len(newJobs) = 2
  /\ Len(diff.create) = 1 /\ Len(diff.update) = 1
  /\ diff.update[1].state = oldJobs[1].state
  /\ diff.update[1].name # oldJobs[1].name

\* C15: diff(X, X) has an empty create set and an empty update set, for every record
\* set X: for the stored and the fetched jobs at hand, and for the call made when
\* the two are equal.
C15_DiffIdempotent ==
  /\ jobsToUpdate(oldJobs, oldJobs) = [create |-> <<>>, update |-> <<>>]
  /\ jobsToUpdate(newJobs, newJobs) = [create |-> <<>>, update |-> <<>>]
  /\ (dpc # "called" /\ oldJobs = newJobs) => diff = [create |-> <<>>, update |-> <<>>]

\* C15 witness: jobsToUpdate was called with the same two jobs on both sides.
C15_Witness ==
  /\ dpc = "diffed"
  /\ Len(newJobs) = 2
  /\ oldJobs = newJobs
  /\ diff = [create |-> <<>>, update |-> <<>>]

\* C16: every record of the update set carries the checkRunId of the previous
\* record of its jobId, so that the checks.update request made of it names that
\* check.
C16_UpdateCarriesCheckRunId ==
  /\ dpc # "called" =>
       \A x \in 1..Len(diff.update) :
         \E p \in 1..Len(oldJobs) :
           /\ oldJobs[p].jobId = diff.update[x].jobId
           /\ diff.update[x].checkRunId = oldJobs[p].checkRunId
  /\ dpc = "built" =>
       \A x \in 1..Len(requests) :
         \E p \in 1..Len(oldJobs) :
           /\ oldJobs[p].jobId = diff.update[x].jobId
           /\ requests[x].check_run_id = oldJobs[p].checkRunId

----------------------------------------------------------------------------
\* github.ts: GitHub.createCheck, getChecksCreateParams, addCompletionInfo and
\* getConclusion

\* the job states of Travis, and two strings that are none of them
JobStates == {"created", "queued", "received", "started", "passed", "failed", "errored",
              "canceled", "Passed", ""}

\* the JobInfo records createCheck is called with here
CheckJobs ==
  [jobId : {"1"}, name : JobNames, state : JobStates, ignoreFailure : BOOLEAN,
   finishedAt : {"t9"}]

\* Variants of the definitions below, as slips of the code would make them
getConclusionFailedFirst(jobInfo) ==
  IF jobInfo.state = "passed" THEN "success"
  ELSE IF jobInfo.ignoreFailure THEN "neutral"
  ELSE IF jobInfo.state = "failed" THEN "failure"
  ELSE IF jobInfo.state = "canceled" THEN "cancelled"
  ELSE "neutral"
IsCompletedNever(status) == FALSE

\* GitHub.getConclusion
getConclusion(jobInfo) ==
  IF jobInfo.state = "passed" THEN "success"
  ELSE IF jobInfo.state = "failed" /\ ~jobInfo.ignoreFailure THEN "failure"
  ELSE IF jobInfo.state = "canceled" THEN "cancelled"
  ELSE "neutral"

\* `payload.status === 'completed'`
IsCompleted(status) == status = "completed"

\* GitHub.getChecksCreateParams: the members that depend on the job; conclusion,
\* completed_at and output are absent (None) until addCompletionInfo sets them
getChecksCreateParams(jobInfo) ==
  [external_id |-> jobInfo.jobId, name |-> jobInfo.name, status |-> getStatus(jobInfo),
   conclusion |-> None, completed_at |-> None, output |-> None]

\* what getJobOutput may answer: an object, undefined (the log holds no block), or
\* a thrown error: the SyntaxError of JSON.parse, the error of the exhausted
\* retries, or the error of the stream
JobOutputs == {"object", "undefined", "SyntaxError", "never completed", "StreamError"}

\* A variant of the definition below, as a slip of the code would make it
AttachOutputUnlessThrown(params, out) ==
  IF out \in {"object", "undefined"} THEN [params EXCEPT !.output = out] ELSE params

\* addCompletionInfo: `if (output) { payload.output = output }`; a thrown error is
\* caught and logged
AttachOutput(params, out) ==
  IF out = "object" THEN [params EXCEPT !.output = out] ELSE params

\* createCheck has been called with a job
InitCheck ==
  /\ FlagIdle
  /\ CeilingDefault
  /\ HandlerIdle
  /\ StoreIdle
  /\ SerIdle
  /\ ExtIdle
  /\ DiffIdle
  /\ PassIdle
  /\ job \in CheckJobs
  /\ createParams = <<>>
  /\ created = None
  /\ cpc = "called"
  /\ extraction = None

\* createCheck up to its first await that leaves the function: the payload is
\* built; for a completed job addCompletionInfo sets conclusion and completed_at
\* and, unless the conclusion is 'cancelled', awaits getJobOutput
CreateCheck ==
  /\ cpc = "called"
  /\ LET params == getChecksCreateParams(job) IN
     IF IsCompleted(params.status)
     THEN LET completion == [params EXCEPT !.conclusion = getConclusion(job),
                                           !.completed_at = job.finishedAt]
          IN
          /\ createParams' = completion
          /\ cpc' = IF completion.conclusion = "cancelled" THEN "creating" ELSE "output"
     ELSE /\ createParams' = params
          /\ cpc' = "creating"
  /\ UNCHANGED <<job, created, extraction>>
  /\ UNCHANGED notCheckVars

\* addCompletionInfo: getJobOutput has settled; a truthy answer becomes the output,
\* an error is logged
JobOutputSettled(out) ==
  /\ cpc = "output"
  /\ createParams' = AttachOutput(createParams, out)
  /\ extraction' = out
  /\ cpc' = "creating"
  /\ UNCHANGED <<job, created>>
  /\ UNCHANGED notCheckVars

\* createCheck: client.checks.create has settled; its id is returned, an error is
\* logged and undefined returned
ChecksCreateSettled(ok) ==
  /\ cpc = "creating"
  /\ created' = IF ok THEN "c7" ELSE None
  /\ cpc' = "done"
  /\ UNCHANGED <<job, createParams, extraction>>
  /\ UNCHANGED notCheckVars

NextCheck ==
  \/ CreateCheck
  \/ \E out \in JobOutputs : JobOutputSettled(out)
  \/ \E ok \in BOOLEAN : ChecksCreateSettled(ok)

SpecCheck == InitCheck /\ [][NextCheck]_vars

----------------------------------------------------------------------------
\* Status and conclusion: properties

\* C17: the conclusion of a completed job: passed gives success; failed gives
\* failure with ignoreFailure false and neutral with ignoreFailure true; canceled
\* gives cancelled whatever ignoreFailure is; every other completed state
\* (errored) gives neutral.  It is what the request of a completed job carries.
C17_Conclusion ==
  LET expected ==
        CASE job.state = "passed" -> "success"
          [] job.state = "failed" /\ ~job.ignoreFailure -> "failure"
          [] job.state = "failed" /\ job.ignoreFailure -> "neutral"
          [] job.state = "canceled" -> "cancelled"
          [] OTHER -> "neutral"
  IN
  job.state \in {"passed", "failed", "errored", "canceled"} =>
    /\ getConclusion(job) = expected
    /\ cpc # "called" => createParams.conclusion = expected

\* C17 witness: the check of a canceled job with ignoreFailure was sent with the
\* conclusion cancelled.
C17_Witness ==
  /\ cpc = "done"
  /\ job.state = "canceled" /\ job.ignoreFailure
  /\ createParams.conclusion = "cancelled"

\* C18: the derived status is total and three-valued: completed iff the state is
\* passed, failed, errored or canceled; in_progress iff it is started; queued for
\* every other string; and the request carries a conclusion and completed_at iff
\* its status is completed.
C18_DerivedStatus ==
  /\ getStatus(job) \in {"completed", "in_progress", "queued"}
  /\ getStatus(job) = "completed" <=> job.state \in {"passed", "failed", "errored", "canceled"}
  /\ getStatus(job) = "in_progress" <=> job.state = "started"
  /\ getStatus(job) = "queued" <=>
       job.state \notin {"passed", "failed", "errored", "canceled", "started"}
  /\ cpc # "called" =>
       /\ createParams.status = getStatus(job)
       /\ createParams.conclusion # None <=> createParams.status = "completed"
       /\ createParams.completed_at # None <=> createParams.status = "completed"

\* C18 witness: the request of an errored job has gone out as completed, with a
\* conclusion and completed_at.
C18_Witness ==
  /\ cpc = "done"
  /\ job.state = "errored"
  /\ createParams.status = "completed"
  /\ createParams.conclusion = "neutral"
  /\ createParams.completed_at = "t9"

\* the other side of C18: the request of a job in a state Travis does not list
\* has gone out as queued, without conclusion
C18_WitnessQueued ==
  /\ cpc = "done"
  /\ job.state = "Passed"
  /\ createParams.status = "queued"
  /\ createParams.conclusion = None

\* C21: for a job whose derived status is completed, the request handed to
\* checks.create carries the conclusion and completed_at however the extraction of
\* the output ended (an object, no block, a parse error, the retries exhausted, a
\* stream error), and it carries an output exactly when the extraction answered
\* an object; the extraction, however it ends, is followed by the request.
C21_Step ==
  /\ cpc = "output" /\ cpc' # "output" => cpc' = "creating" /\ extraction' # None
  /\ cpc = "creating" /\ cpc' # "creating" => cpc' = "done" /\ createParams' = createParams
C21_PublishedWhateverTheOutput ==
  [][ /\ C21_Step
      /\ (cpc' \in {"creating", "done"} /\
           job'.state \in {"passed", "failed", "errored", "canceled"}) =>
           /\ createParams'.status = "completed"
           /\ createParams'.conclusion \in {"success", "failure", "neutral", "cancelled"}
           /\ createParams'.completed_at = job'.finishedAt
           /\ createParams'.output # None <=> extraction' = "object"
           /\ createParams'.output # None => createParams'.output = "object" ]_vars

\* C21 witness: the request of a failed job has gone out with its conclusion
\* and completed_at and without an output, the retries of the extraction having
\* been exhausted.
C21_Witness ==
  /\ cpc = "done"
  /\ job.state = "failed" /\ ~job.ignoreFailure
  /\ extraction = "never completed"
  /\ createParams.conclusion = "failure"
  /\ createParams.completed_at = "t9"
  /\ createParams.output = None

\* C21 witness: the extraction answered an object and the request carries it.
C21_WitnessObject ==
  /\ cpc = "done"
  /\ extraction = "object"
  /\ createParams.output = "object"

----------------------------------------------------------------------------
\* travis.ts: Travis.getSupportedJobs, getJobInfo and extractName;
\* github.ts: GitHub.checksToCreate; index.ts: processJobs

\* the text CHECK_NAME= of extractName's regular expression
LabelText == <<"C", "H", "E", "C", "K", "_", "N", "A", "M", "E", "=">>

\* The `config.env` strings of the model:
\*   empty; A=1; CHECK_NAME =a (a blank before the =); CHECK_NAME= (nothing after);
\*   CHECK_NAME='' ; CHECK_NAME=a; A=1 CHECK_NAME='a b' B=2; CHECK_NAME="a"
EnvEmpty == <<>>
EnvOther == <<"A", "=", "1">>
EnvBlank == <<"C", "H", "E", "C", "K", "_", "N", "A", "M", "E", " ", "=", "a">>
EnvNoValue == LabelText
EnvEmptyQuotes == LabelText \o <<"'", "'">>
EnvPlain == LabelText \o <<"a">>
EnvQuoted == <<"A", "=", "1", " ">> \o LabelText \o <<"'", "a", " ", "b", "'", " ", "B", "=", "2">>
EnvDoubleQuoted == LabelText \o <<"\"", "a", "\"">>
Envs == {EnvEmpty, EnvOther, EnvBlank, EnvNoValue, EnvEmptyQuotes, EnvPlain, EnvQuoted,
         EnvDoubleQuoted}

\* the states the jobs of the build go through here, and the changes Travis makes
PassStates == {"created", "started", "passed", "canceled"}
TravisMoves == {<<"created", "started">>, <<"created", "canceled">>, <<"started", "passed">>,
                <<"started", "canceled">>}

\* `undefined` where a name is expected
NoName == <<"\n">>

LineTerminators == {"\n", "\r"}

\* '.*?' or ".*?" at position p: the text from the quote at p to the next such
\* quote, no line terminator between
QuotedAt(env, p, quote) ==
  IF p > Len(env) \/ env[p] # quote THEN [ok |-> FALSE, group |-> <<>>]
  ELSE LET ends == {q \in (p + 1)..Len(env) : env[q] = quote} IN
       IF ends = {} THEN [ok |-> FALSE, group |-> <<>>]
       ELSE LET q == CHOOSE e \in ends : \A f \in ends : e <= f IN
            IF \E x \in (p + 1)..(q - 1) : env[x] \in LineTerminators
            THEN [ok |-> FALSE, group |-> <<>>]
            ELSE [ok |-> TRUE, group |-> SubSeq(env, p, q)]

\* \S+ at position p: the longest run of non-blank characters from p, one at least
NonBlankAt(env, p) ==
  IF p > Len(env) \/ env[p] \in Whitespace THEN [ok |-> FALSE, group |-> <<>>]
  ELSE LET stops == {q \in p..Len(env) : env[q] \in Whitespace}
           last == IF stops = {} THEN Len(env)
                   ELSE (CHOOSE e \in stops : \A f \in stops : e <= f) - 1
       IN [ok |-> TRUE, group |-> SubSeq(env, p, last)]

\* /CHECK_NAME=('.*?'|".*?"|\S+)/ tried at position i: the first alternative that
\* matches gives group 1
MatchAt(env, i) ==
  IF i + Len(LabelText) - 1 > Len(env) \/ SubSeq(env, i, i + Len(LabelText) - 1) # LabelText
  THEN [ok |-> FALSE, group |-> <<>>]
  ELSE LET p == i + Len(LabelText)
           single == QuotedAt(env, p, "'")
           double == QuotedAt(env, p, "\"")
       IN IF single.ok THEN single
          ELSE IF double.ok THEN double
          ELSE NonBlankAt(env, p)

\* RegExp.prototype.exec from lastIndex 0: the leftmost position that matches
RegExec(env) ==
  LET hits == {i \in 1..Len(env) : MatchAt(env, i).ok} IN
  IF hits = {} THEN [ok |-> FALSE, group |-> <<>>]
  ELSE MatchAt(env, CHOOSE i \in hits : \A h \in hits : i <= h)

\* `.replace(/["']/g, '')`
RECURSIVE StripQuotes(_)
StripQuotes(t) ==
  IF t = <<>> THEN <<>>
  ELSE IF Head(t) \in {"'", "\""} THEN StripQuotes(Tail(t))
  ELSE <<Head(t)>> \o StripQuotes(Tail(t))

\* Variant of extractName, as a default name for unlabeled jobs would make it
extractNameDefaulted(env) ==
  LET match == RegExec(env) IN
  IF match.ok THEN StripQuotes(match.group) ELSE <<"j", "o", "b">>

\* Travis.extractName
extractName(env) ==
  LET match == RegExec(env) IN
  IF match.ok THEN StripQuotes(match.group) ELSE NoName

\* Travis.getJobInfo: undefined (NoJob) when the name is undefined or empty.
\* allow_failure is false and finished_at the same for every job here.
getJobInfo(tjob) ==
  LET jobName == extractName(tjob.env) IN
  IF jobName = NoName \/ jobName = <<>> THEN NoJob
  ELSE [jobId |-> tjob.id, name |-> jobName, state |-> tjob.state, ignoreFailure |-> FALSE,
        finishedAt |-> "t9"]

\* function present
present(input) == input # NoJob

\* `travisInfo.jobs.map(this.getJobInfo, this).filter(present)`
getSupportedJobs(tjobs) ==
  LET infos == [n \in 1..Len(tjobs) |-> getJobInfo(tjobs[n])] IN
  SelectSeq(infos, present)

\* How the request of getSupportedJobs can end: with the build of a pull request,
\* with the build of another event, with a body of a pull request build that has
\* no `jobs` array (the map throws), or rejected (network, HTTP status)
TravisAnswers == {"pull_request", "push", "pull_request without jobs", "rejected"}

\* travisInfo.event_type of an answer that has a body
EventType(answer) == IF answer = "pull_request without jobs" THEN "pull_request" ELSE answer

\* A variant of the definition below, as a slip of the code would make it
IsPullRequestOrPush(eventType) == eventType \in {"pull_request", "push"}

\* `travisInfo.event_type === 'pull_request'`
IsPullRequest(eventType) == eventType = "pull_request"

\* getSupportedJobs answers an array: the request was fulfilled, the build is of a
\* pull request and nothing was thrown inside the try block; otherwise undefined
AnswersJobs(answer) ==
  /\ answer # "rejected"
  /\ IsPullRequest(EventType(answer))
  /\ answer # "pull_request without jobs"

\* GitHub.isCheckForJob, for the one build looked at: the external_id of a check
\* the app made is <domain>/<build>/<jobId>
isCheckForJob(c, j) == c.external_id = j.jobId

\* `undefined` where a check is expected
NoCheck == [external_id |-> None, name |-> None, status |-> None, conclusion |-> None,
            completed_at |-> None]

\* the answers `existingChecks.find(...)` can give for each job: undefined, or a
\* check of the job (the first of them in the order GitHub lists the checks, which
\* is any of them)
ExistingPicks(listOk) ==
  {pick \in [1..Len(fetched) -> checks \cup {NoCheck}] :
     \A n \in 1..Len(fetched) :
       LET matches == {c \in checks : isCheckForJob(c, fetched[n])} IN
       IF ~listOk \/ matches = {} THEN pick[n] = NoCheck ELSE pick[n] \in matches}

\* the test of checksToCreate for one job
NeedsCheck(current, existing) ==
  \/ existing = NoCheck
  \/ getStatus(current) # existing.status
  \/ current.name # existing.name

\* the check GitHub makes of the parameters of checks.create
CheckOf(params) ==
  [external_id |-> params.external_id, name |-> params.name, status |-> params.status,
   conclusion |-> params.conclusion, completed_at |-> params.completed_at]

\* Variant of AllSettled below, as Promise.race would make it
AnySettled(operations) ==
  operations = <<>> \/ \E n \in 1..Len(operations) : operations[n].pc \in {"created", "failed"}

\* `Promise.all(operations.map(p => p.catch(e => e)))` is fulfilled
AllSettled(operations) ==
  \A n \in 1..Len(operations) : operations[n].pc \in {"created", "failed"}

\* createCheck from its call to its first await that waits for the network
StartOp(jobInfo) ==
  LET params == getChecksCreateParams(jobInfo) IN
  IF IsCompleted(params.status)
  THEN LET completion == [params EXCEPT !.conclusion = getConclusion(jobInfo),
                                        !.completed_at = jobInfo.finishedAt]
       IN [jobId |-> jobInfo.jobId, params |-> completion,
           pc |-> IF completion.conclusion = "cancelled" THEN "creating" ELSE "output"]
  ELSE [jobId |-> jobInfo.jobId, params |-> params, pc |-> "creating"]

\* a build of two jobs, one labeled, the other with any of the env strings
InitPass ==
  /\ FlagIdle
  /\ CeilingDefault
  /\ HandlerIdle
  /\ StoreIdle
  /\ SerIdle
  /\ ExtIdle
  /\ DiffIdle
  /\ CheckIdle
  /\ \E env \in Envs :
       travisJobs = << [id |-> "1", env |-> env, state |-> "created"],
                       [id |-> "2", env |-> EnvPlain, state |-> "created"] >>
  /\ checks = {}
  /\ ppc = "idle"
  /\ fetched = <<>>
  /\ toCreate = <<>>
  /\ ops = <<>>
  /\ nPasses = 0
  /\ nChanges = 0
  /\ lastPass = None
  /\ everFetched = {}

\* a job of the build changes state at Travis
TravisChange(n, st) ==
  /\ nChanges < MaxChanges
  /\ n \in 1..Len(travisJobs)
  /\ <<travisJobs[n].state, st>> \in TravisMoves
  /\ travisJobs' = [travisJobs EXCEPT ![n].state = st]
  /\ nChanges' = nChanges + 1
  /\ UNCHANGED <<checks, ppc, fetched, toCreate, ops, nPasses, lastPass, everFetched>>
  /\ UNCHANGED notPassVars

\* processJobs is called: the request of getSupportedJobs goes out
StartPass ==
  /\ ppc = "idle"
  /\ nPasses < MaxPasses
  /\ nPasses' = nPasses + 1
  /\ ppc' = "fetching"
  /\ fetched' = <<>>
  /\ toCreate' = <<>>
  /\ ops' = <<>>
  /\ UNCHANGED <<travisJobs, checks, nChanges, lastPass, everFetched>>
  /\ UNCHANGED notPassVars

\* getSupportedJobs settles: with the labeled jobs of a pull request build, or with
\* undefined (the request failed, or the build is of another event), and then
\* processJobs returns
FetchSettled(answer) ==
  /\ ppc = "fetching"
  /\ IF AnswersJobs(answer)
     THEN /\ fetched' = getSupportedJobs(travisJobs)
          /\ everFetched' = everFetched \cup {fetched'[n].jobId : n \in 1..Len(fetched')}
          /\ ppc' = "appid"
          /\ UNCHANGED lastPass
     ELSE /\ ppc' = "idle"
          /\ lastPass' = "fulfilled"
          /\ UNCHANGED <<fetched, everFetched>>
  /\ UNCHANGED <<travisJobs, checks, toCreate, ops, nPasses, nChanges>>
  /\ UNCHANGED notPassVars

\* getAppId settles; when it rejects, processJobs rejects
AppIdSettled(ok) ==
  /\ ppc = "appid"
  /\ IF ok
     THEN ppc' = "listing" /\ UNCHANGED <<lastPass, fetched>>
     ELSE ppc' = "idle" /\ lastPass' = "rejected" /\ fetched' = <<>>
  /\ UNCHANGED <<travisJobs, checks, toCreate, ops, nPasses, nChanges, everFetched>>
  /\ UNCHANGED notPassVars

\* checksToCreate: getExistingChecks has settled (an error gives no checks); the
\* loop runs, and processJobs calls createCheck for every job of the answer
ChecksListed(listOk, pick) ==
  /\ ppc = "listing"
  /\ pick \in ExistingPicks(listOk)
  /\ LET wanted == {n \in 1..Len(fetched) : NeedsCheck(fetched[n], pick[n])}
         Wanted(j) == \E n \in wanted : fetched[n] = j
         create == SelectSeq(fetched, Wanted)
     IN
     /\ toCreate' = create
     /\ ops' = [n \in 1..Len(create) |-> StartOp(create[n])]
  /\ ppc' = "publishing"
  /\ UNCHANGED <<travisJobs, checks, fetched, nPasses, nChanges, lastPass, everFetched>>
  /\ UNCHANGED notPassVars

\* addCompletionInfo of the n-th createCheck: getJobOutput has settled
OpOutputSettled(n, out) ==
  /\ ppc = "publishing"
  /\ n \in 1..Len(ops)
  /\ ops[n].pc = "output"
  /\ ops' = [ops EXCEPT ![n].pc = "creating", ![n].params = AttachOutput(@, out)]
  /\ UNCHANGED <<travisJobs, checks, ppc, fetched, toCreate, nPasses, nChanges, lastPass,
                 everFetched>>
  /\ UNCHANGED notPassVars

\* the n-th createCheck: checks.create has settled; GitHub has the new check, or
\* the error is logged and the call returns undefined
OpCreateSettled(n, ok) ==
  /\ ppc = "publishing"
  /\ n \in 1..Len(ops)
  /\ ops[n].pc = "creating"
  /\ ops' = [ops EXCEPT ![n].pc = IF ok THEN "created" ELSE "failed"]
  /\ checks' = IF ok THEN checks \cup {CheckOf(ops[n].params)} ELSE checks
  /\ UNCHANGED <<travisJobs, ppc, fetched, toCreate, nPasses, nChanges, lastPass, everFetched>>
  /\ UNCHANGED notPassVars

\* processJobs: the Promise.all of the operations is fulfilled, processJobs returns
PassDone ==
  /\ ppc = "publishing"
  /\ AllSettled(ops)
  /\ ppc' = "idle"
  /\ lastPass' = "fulfilled"
  /\ fetched' = <<>>
  /\ toCreate' = <<>>
  /\ ops' = <<>>
  /\ UNCHANGED <<travisJobs, checks, nPasses, nChanges, everFetched>>
  /\ UNCHANGED notPassVars

NextPass ==
  \/ \E n \in 1..2, st \in PassStates : TravisChange(n, st)
  \/ StartPass
  \/ \E answer \in TravisAnswers : FetchSettled(answer)
  \/ \E ok \in BOOLEAN : AppIdSettled(ok)
  \/ \E listOk \in BOOLEAN : \E pick \in ExistingPicks(listOk) : ChecksListed(listOk, pick)
  \/ \E n \in 1..2, out \in JobOutputs : OpOutputSettled(n, out)
  \/ \E n \in 1..2, ok \in BOOLEAN : OpCreateSettled(n, ok)
  \/ PassDone

SpecPass == InitPass /\ [][NextPass]_vars

----------------------------------------------------------------------------
\* The passes of a build: properties

\* the env string holds the label text CHECK_NAME=
HasLabel(env) ==
  \E i \in 1..Len(env) :
    /\ i + 10 <= Len(env)
    /\ SubSeq(env, i, i + 10) = <<"C", "H", "E", "C", "K", "_", "N", "A", "M", "E", "=">>

\* C19: a job whose env string holds no CHECK_NAME label is in no answer of
\* getSupportedJobs, in any pass and whatever its state, and so no check is ever
\* asked for or made for it, through any sequence of state changes.
C19_UnlabeledNeverPublished ==
  \A t \in 1..Len(travisJobs) :
    ~HasLabel(travisJobs[t].env) =>
      LET id == travisJobs[t].id IN
      /\ \A st \in JobStates : getJobInfo([travisJobs[t] EXCEPT !.state = st]) = NoJob
      /\ id \notin everFetched
      /\ \A n \in 1..Len(fetched) : fetched[n].jobId # id
      /\ \A n \in 1..Len(toCreate) : toCreate[n].jobId # id
      /\ \A n \in 1..Len(ops) : ops[n].jobId # id
      /\ \A c \in checks : c.external_id # id

\* C19 witness: job 1 has the env A=1 and has gone to started and to passed, job 2
\* to started; two passes have run, and the only job ever fetched, and checked
\* (as queued and as in_progress), is job 2.
C19_Witness ==
  /\ travisJobs[1].env = EnvOther
  /\ travisJobs[1].state = "passed"
  /\ nChanges = 3
  /\ nPasses = 2 /\ ppc = "idle"
  /\ everFetched = {"2"}
  /\ Cardinality(checks) = 2

\* C20: within a pass every operation of the diff is started; the failure of one
\* operation neither keeps another from being issued or from finishing nor makes
\* the pass fail; and the pass completes only after all its operations have
\* settled.
C20_Step ==
  /\ ppc = "publishing" =>
       /\ Len(ops) = Len(toCreate)
       /\ \A n \in 1..Len(ops) :
            /\ ops[n].jobId = toCreate[n].jobId
            /\ ops[n].pc = "output" => ENABLED OpOutputSettled(n, "object")
            /\ ops[n].pc = "creating" => ENABLED OpCreateSettled(n, TRUE)
  /\ \A n \in 1..Len(ops) :
       (ppc = "publishing" /\ ops[n].pc = "creating" /\ n <= Len(ops') /\ ops'[n].pc = "failed") =>
         /\ ppc' = "publishing"
         /\ lastPass' = lastPass
         /\ \A m \in 1..Len(ops) : m # n => ops'[m] = ops[m]
  /\ (ppc = "publishing" /\ ppc' # "publishing") =>
       /\ \A n \in 1..Len(ops) : ops[n].pc \in {"created", "failed"}
       /\ ppc' = "idle"
       /\ lastPass' = "fulfilled"

C20_IndependentOperations == [][C20_Step]_vars

\* C20 witness: both operations of the first pass have settled, the first failed
\* and the second made its check.
C20_Witness ==
  /\ ppc = "publishing"
  /\ nPasses = 1
  /\ Len(ops) = 2
  /\ ops[1].pc = "failed"
  /\ ops[2].pc = "created"
  /\ \E c \in checks : c.external_id = ops[2].jobId

\* C20, the end of such a pass: the first pass of a build of two labeled jobs has
\* been fulfilled with the check of job 2 made and that of job 1 failed.
C20_WitnessDone ==
  /\ ppc = "idle"
  /\ nPasses = 1
  /\ lastPass = "fulfilled"
  /\ everFetched = {"1", "2"}
  /\ {c.external_id : c \in checks} = {"2"}

\* C26: when the fetch of the jobs fails (the request is rejected, or the body
\* makes the mapping throw) or the build is of another event than a pull request,
\* the pass ends there: no operation is started, the checks at GitHub stay as they
\* were, and processJobs is fulfilled, not rejected, so its caller goes on as
\* after any completed pass.
C26_NoJobsThisCycle ==
  [][ \A answer \in {"push", "pull_request without jobs", "rejected"} :
        FetchSettled(answer) =>
          /\ ppc' = "idle"
          /\ lastPass' = "fulfilled"
          /\ ops' = <<>> /\ toCreate' = <<>> /\ fetched' = <<>>
          /\ checks' = checks
          /\ everFetched' = everFetched ]_vars

\* C26 witness: the first pass of the build has ended, fulfilled, without any job
\* fetched and without any check made.
C26_Witness ==
  /\ nPasses = 1
  /\ ppc = "idle"
  /\ lastPass = "fulfilled"
  /\ everFetched = {}
  /\ checks = {}

----------------------------------------------------------------------------
\* store.ts: Store.replace and Store.update over the probot-metadata of the issue

\* the builds whose status events name the same pull request
BuildIds == {"7", "8"}

\* The JobInfo records and arrays the Store is called with: job 1 as fetched and
\* as annotated after its check was created, job 2 as fetched
StoreRecords ==
  {JobInfo("1", "a", "created", None), JobInfo("1", "a", "started", "c7"),
   JobInfo("2", "b", "created", None)}
StoreLists == JobLists(StoreRecords)

\* `memory ? memory[this.build.id] : undefined` and `data.get(this.build.id)`
MetadataGet(mem, key) ==
  IF key \in DOMAIN mem THEN [defined |-> TRUE, jobs |-> mem[key]] ELSE NoMemory

\* Variants of the definitions below, as slips of the code would make them
StoreJobAppend(jobs, jobInfo) == Append(jobs, jobInfo)
ReplaceAnswerNothing(got) == <<>>

\* `data.set({ [id]: jobs })` and `data.set(id, jobs)`: the entry of the build is
\* written, the entries of other builds stay
MetadataSet(mem, key, value) == MapSet(mem, key, value)

\* `return oldJobs || []`
ReplaceAnswer(got) == IF got.defined THEN got.jobs ELSE <<>>

\* the body of update's for loop: findIndex by jobId, then assign or push
StoreJob(jobs, jobInfo) ==
  LET hits == {i \in 1..Len(jobs) : jobs[i].jobId = jobInfo.jobId} IN
  IF hits # {}
  THEN [jobs EXCEPT ![CHOOSE i \in hits : \A h \in hits : i <= h] = jobInfo]
  ELSE Append(jobs, jobInfo)

\* update's for loop over jobsToUpdate, from its n-th element on
RECURSIVE StoreJobsFrom(_, _, _)
StoreJobsFrom(jobs, jobsToStore, n) ==
  IF n > Len(jobsToStore) THEN jobs
  ELSE StoreJobsFrom(StoreJob(jobs, jobsToStore[n]), jobsToStore, n + 1)

\* Store.replace is called: data.get() goes out
ReplaceCalled(c, b, js) ==
  /\ spc[c] = "idle"
  /\ nCalls < MaxCalls
  /\ nCalls' = nCalls + 1
  /\ spc' = [spc EXCEPT ![c] = "replace-get"]
  /\ sbuild' = [sbuild EXCEPT ![c] = b]
  /\ sarg' = [sarg EXCEPT ![c] = js]
  /\ sgot' = [sgot EXCEPT ![c] = NoMemory]
  /\ smerged' = [smerged EXCEPT ![c] = <<>>]
  /\ sret' = [sret EXCEPT ![c] = <<>>]
  /\ slast' = [slast EXCEPT ![c] = None]
  /\ UNCHANGED memory
  /\ UNCHANGED notStoreVars

\* Store.replace: data.get() has answered; oldJobs is taken and data.set goes out
ReplaceGot(c) ==
  /\ spc[c] = "replace-get"
  /\ sgot' = [sgot EXCEPT ![c] = MetadataGet(memory, sbuild[c])]
  /\ spc' = [spc EXCEPT ![c] = "replace-set"]
  /\ UNCHANGED <<memory, sbuild, sarg, smerged, sret, slast, nCalls>>
  /\ UNCHANGED notStoreVars

\* Store.replace: data.set has written the entry; `oldJobs || []` is returned
ReplaceSet(c) ==
  /\ spc[c] = "replace-set"
  /\ memory' = MetadataSet(memory, sbuild[c], sarg[c])
  /\ sret' = [sret EXCEPT ![c] = ReplaceAnswer(sgot[c])]
  /\ slast' = [slast EXCEPT ![c] = "replace"]
  /\ spc' = [spc EXCEPT ![c] = "idle"]
  /\ UNCHANGED <<sbuild, sarg, sgot, smerged, nCalls>>
  /\ UNCHANGED notStoreVars

\* Store.update is called: data.get(id) goes out
UpdateCalled(c, b, js) ==
  /\ spc[c] = "idle"
  /\ nCalls < MaxCalls
  /\ nCalls' = nCalls + 1
  /\ spc' = [spc EXCEPT ![c] = "update-get"]
  /\ sbuild' = [sbuild EXCEPT ![c] = b]
  /\ sarg' = [sarg EXCEPT ![c] = js]
  /\ sgot' = [sgot EXCEPT ![c] = NoMemory]
  /\ smerged' = [smerged EXCEPT ![c] = <<>>]
  /\ sret' = [sret EXCEPT ![c] = <<>>]
  /\ slast' = [slast EXCEPT ![c] = None]
  /\ UNCHANGED memory
  /\ UNCHANGED notStoreVars

\* Store.update: data.get(id) has answered; with no memory of the build the call
\* returns, otherwise the loop runs and data.set goes out
UpdateGot(c) ==
  /\ spc[c] = "update-get"
  /\ LET got == MetadataGet(memory, sbuild[c]) IN
     /\ sgot' = [sgot EXCEPT ![c] = got]
     /\ IF ~got.defined
        THEN /\ spc' = [spc EXCEPT ![c] = "idle"]
             /\ slast' = [slast EXCEPT ![c] = "no memory"]
             /\ UNCHANGED smerged
        ELSE /\ spc' = [spc EXCEPT ![c] = "update-set"]
             /\ smerged' = [smerged EXCEPT ![c] = StoreJobsFrom(got.jobs, sarg[c], 1)]
             /\ UNCHANGED slast
  /\ UNCHANGED <<memory, sbuild, sarg, sret, nCalls>>
  /\ UNCHANGED notStoreVars

\* Store.update: data.set has written the entry
UpdateSet(c) ==
  /\ spc[c] = "update-set"
  /\ memory' = MetadataSet(memory, sbuild[c], smerged[c])
  /\ slast' = [slast EXCEPT ![c] = "update"]
  /\ spc' = [spc EXCEPT ![c] = "idle"]
  /\ UNCHANGED <<sbuild, sarg, sgot, smerged, sret, nCalls>>
  /\ UNCHANGED notStoreVars

InitStore ==
  /\ FlagIdle
  /\ CeilingDefault
  /\ HandlerIdle
  /\ SerIdle
  /\ ExtIdle
  /\ DiffIdle
  /\ CheckIdle
  /\ PassIdle
  /\ StoreIdle

\* the calls one caller makes
CallerNext(c) ==
  \/ \E b \in BuildIds, js \in StoreLists : ReplaceCalled(c, b, js)
  \/ ReplaceGot(c)
  \/ ReplaceSet(c)
  \/ \E b \in BuildIds, js \in StoreLists : UpdateCalled(c, b, js)
  \/ UpdateGot(c)
  \/ UpdateSet(c)

\* one call after another, as handlers that do not overlap make them
NextStore == CallerNext(1)

\* the calls of handlers that run together: index.ts awaits nothing between two
\* status events, so a second handler reaches the Store while the first awaits
NextStoreRace == \E c \in Callers : CallerNext(c)

SpecStore == InitStore /\ [][NextStore]_vars
SpecStoreRace == InitStore /\ [][NextStoreRace]_vars

----------------------------------------------------------------------------
\* index.ts with the Store: app.on('status') calling Store.replace,
\* GitHub.jobsToUpdate, createCheck / updateCheck and Store.update

\* the build the status events are of
HandledBuild == "7"

\* the ids GitHub gives to the check runs it creates, in order
NewCheckRunIds == <<"c1", "c2", "c3", "c4", "c5", "c6", "c7", "c8">>

\* What getSupportedJobs answers for the build: job 1 in one of its states, alone
\* or followed by job 2
HandledStates == {"created", "started", "passed"}
HandledLists ==
  {<<JobInfo("1", "a", st, None)>> : st \in HandledStates}
    \cup {<<JobInfo("1", "a", st, None), JobInfo("2", "b", "created", None)>> :
            st \in HandledStates}

\* the call made for job j: createCheck inside the async arrow of diff.create, or
\* updateCheck, whose payload is built before its first await
CreateOp(j) == [kind |-> "create", jobId |-> j.jobId, params |-> getChecksCreateParams(j),
                pc |-> "pending"]
UpdateOp(j) == [kind |-> "update", jobId |-> j.jobId, params |-> getChecksUpdateParams(j),
                pc |-> "pending"]

\* `operations`: the calls for diff.create, then those for diff.update
OperationsOf(d) ==
  [n \in 1..Len(d.create) |-> CreateOp(d.create[n])]
    \o [n \in 1..Len(d.update) |-> UpdateOp(d.update[n])]

\* the handler returns: its locals are gone
HandlerReturns ==
  /\ hpc' = "idle"
  /\ hjobs' = <<>>
  /\ hgot' = NoMemory
  /\ hprevious' = <<>>
  /\ hdiff' = [create |-> <<>>, update |-> <<>>]
  /\ hops' = <<>>
  /\ htoStore' = <<>>
  /\ hmerged' = <<>>

\* a status event of the build arrives: Travis.tryCreate succeeds and
\* loadBuildInfo goes out
StatusReceived ==
  /\ hpc = "idle"
  /\ nHandled < MaxHandled
  /\ nHandled' = nHandled + 1
  /\ hpc' = "loading"
  /\ UNCHANGED <<hjobs, hgot, hprevious, hdiff, hops, htoStore, hmerged, nextCheckId,
                 createdAs, createFailed, updateFailed>>
  /\ UNCHANGED memory
  /\ UNCHANGED <<lastJobs, lastSucceeded>>
  /\ UNCHANGED notHandlerVars

\* loadBuildInfo settles: without build info the handler returns; otherwise
\* getSupportedJobs gives `jobs` and store.replace is called (data.get goes out).
\* The histories of failed calls are kept for the jobs this pass discovers.
LoadSettled(ok, js) ==
  /\ hpc = "loading"
  /\ IF ok
     THEN /\ hjobs' = js
          /\ hpc' = "replace-get"
          /\ createFailed' = {j \in createFailed : \E i \in 1..Len(js) : js[i].jobId = j}
          /\ updateFailed' = [j \in DOMAIN updateFailed |->
                                IF \E i \in 1..Len(js) : js[i].jobId = j
                                THEN updateFailed[j] ELSE None]
          /\ UNCHANGED <<hgot, hprevious, hdiff, hops, htoStore, hmerged>>
     ELSE HandlerReturns /\ UNCHANGED <<createFailed, updateFailed>>
  /\ UNCHANGED <<nHandled, nextCheckId, createdAs>>
  /\ UNCHANGED memory
  /\ UNCHANGED <<lastJobs, lastSucceeded>>
  /\ UNCHANGED notHandlerVars

\* Store.replace: data.get() has answered; data.set goes out
HandlerReplaceGot ==
  /\ hpc = "replace-get"
  /\ hgot' = MetadataGet(memory, HandledBuild)
  /\ hpc' = "replace-set"
  /\ UNCHANGED <<hjobs, hprevious, hdiff, hops, htoStore, hmerged, nHandled, nextCheckId,
                 createdAs, createFailed, updateFailed>>
  /\ UNCHANGED memory
  /\ UNCHANGED <<lastJobs, lastSucceeded>>
  /\ UNCHANGED notHandlerVars

\* Store.replace: data.set has written `jobs`; replace returns `previous`, the
\* diff is taken and every operation is called; with no operation the handler
\* is through
HandlerReplaceSet ==
  /\ hpc = "replace-set"
  /\ memory' = MetadataSet(memory, HandledBuild, hjobs)
  /\ LET previous == ReplaceAnswer(hgot)
         d == jobsToUpdate(previous, hjobs)
     IN
     IF OperationsOf(d) = <<>>
     THEN HandlerReturns
     ELSE /\ hprevious' = previous
          /\ hdiff' = d
          /\ hops' = OperationsOf(d)
          /\ hpc' = "publishing"
          /\ UNCHANGED <<hjobs, hgot, htoStore, hmerged>>
  /\ UNCHANGED <<nHandled, nextCheckId, createdAs, createFailed, updateFailed>>
  /\ lastJobs' = hjobs
  /\ lastSucceeded' = TRUE
  /\ UNCHANGED notHandlerVars

\* the n-th operation settles.  A createCheck that returns an id sets
\* j.checkRunId and pushes j on toStore; one that returns undefined does
\* nothing; updateCheck logs its error
OperationSettled(n, ok) ==
  /\ hpc = "publishing"
  /\ n \in 1..Len(hops)
  /\ hops[n].pc = "pending"
  /\ ok /\ hops[n].kind = "create" => nextCheckId <= Len(NewCheckRunIds)
  /\ hops' = [hops EXCEPT ![n].pc = IF ok THEN "done" ELSE "failed"]
  /\ LET jobId == hops[n].jobId
         at == CHOOSE i \in 1..Len(hjobs) : hjobs[i].jobId = jobId
         checkRunId == NewCheckRunIds[nextCheckId]
     IN
     IF hops[n].kind = "create"
     THEN /\ IF ok
             THEN /\ hjobs' = [hjobs EXCEPT ![at].checkRunId = checkRunId]
                  /\ htoStore' = Append(htoStore, hjobs'[at])
                  /\ nextCheckId' = nextCheckId + 1
                  /\ createdAs' = [createdAs EXCEPT ![jobId] = @ \cup {checkRunId}]
                  /\ createFailed' = createFailed \ {jobId}
             ELSE /\ createFailed' = createFailed \cup {jobId}
                  /\ UNCHANGED <<hjobs, htoStore, nextCheckId, createdAs>>
          /\ updateFailed' = [updateFailed EXCEPT ![jobId] = None]
     ELSE /\ updateFailed' = [updateFailed EXCEPT ![jobId] =
                                IF ok THEN None ELSE hops[n].params.status]
          /\ UNCHANGED <<hjobs, htoStore, nextCheckId, createdAs, createFailed>>
  /\ UNCHANGED <<hpc, hgot, hprevious, hdiff, hmerged, nHandled>>
  /\ UNCHANGED memory
  /\ lastSucceeded' = (lastSucceeded /\ ok)
  /\ UNCHANGED lastJobs
  /\ UNCHANGED notHandlerVars

\* Promise.all is fulfilled: with something on toStore, store.update is called
\* (data.get goes out); otherwise the handler is through
OperationsSettled ==
  /\ hpc = "publishing"
  /\ \A n \in 1..Len(hops) : hops[n].pc # "pending"
  /\ IF Len(htoStore) > 0
     THEN /\ hpc' = "update-get"
          /\ UNCHANGED <<hjobs, hgot, hprevious, hdiff, hops, htoStore, hmerged>>
     ELSE HandlerReturns
  /\ UNCHANGED <<nHandled, nextCheckId, createdAs, createFailed, updateFailed>>
  /\ UNCHANGED memory
  /\ UNCHANGED <<lastJobs, lastSucceeded>>
  /\ UNCHANGED notHandlerVars

\* Store.update: data.get(id) has answered; its loop runs and data.set goes out,
\* or there is no memory of the build and update returns
HandlerUpdateGot ==
  /\ hpc = "update-get"
  /\ LET got == MetadataGet(memory, HandledBuild) IN
     IF got.defined
     THEN /\ hgot' = got
          /\ hmerged' = StoreJobsFrom(got.jobs, htoStore, 1)
          /\ hpc' = "update-set"
          /\ UNCHANGED <<hjobs, hprevious, hdiff, hops, htoStore>>
     ELSE HandlerReturns
  /\ UNCHANGED <<nHandled, nextCheckId, createdAs, createFailed, updateFailed>>
  /\ UNCHANGED memory
  /\ UNCHANGED <<lastJobs, lastSucceeded>>
  /\ UNCHANGED notHandlerVars

\* Store.update: data.set has written the entry; the handler is through
HandlerUpdateSet ==
  /\ hpc = "update-set"
  /\ memory' = MetadataSet(memory, HandledBuild, hmerged)
  /\ HandlerReturns
  /\ UNCHANGED <<nHandled, nextCheckId, createdAs, createFailed, updateFailed>>
  /\ UNCHANGED <<lastJobs, lastSucceeded>>
  /\ UNCHANGED notHandlerVars

InitHandler ==
  /\ FlagIdle
  /\ CeilingDefault
  /\ SerIdle
  /\ ExtIdle
  /\ DiffIdle
  /\ CheckIdle
  /\ PassIdle
  /\ StoreIdle
  /\ HandlerIdle

NextHandler ==
  \/ StatusReceived
  \/ \E ok \in BOOLEAN, js \in HandledLists : LoadSettled(ok, js)
  \/ HandlerReplaceGot
  \/ HandlerReplaceSet
  \/ \E n \in 1..2, ok \in BOOLEAN : OperationSettled(n, ok)
  \/ OperationsSettled
  \/ HandlerUpdateGot
  \/ HandlerUpdateSet

SpecHandler == InitHandler /\ [][NextHandler]_vars

----------------------------------------------------------------------------
\* The Store: properties

\* the jobIds of an array of jobs
JobIdsOf(jobs) == {jobs[i].jobId : i \in 1..Len(jobs)}

\* no jobId twice
UniqueJobIds(jobs) == \A i, k \in 1..Len(jobs) : jobs[i].jobId = jobs[k].jobId => i = k

\* every entry but that of build b is as it was
OthersKept(b) ==
  /\ DOMAIN memory' = DOMAIN memory \cup {b}
  /\ \A o \in DOMAIN memory \ {b} : memory'[o] = memory[o]

\* C23: with calls of the Store under way together on the same build, every write
\* of replace and update is made on the snapshot the call read (nothing was
\* written in between, so no record and no checkRunId written by another call is
\* lost), and a replace that returns does not return the prior snapshot another
\* replace under way is about to return.
C23_Step ==
  \A c \in Callers :
    /\ (spc[c] \in {"replace-set", "update-set"} /\ spc'[c] = "idle") =>
         sgot[c] = (IF sbuild[c] \in DOMAIN memory
                    THEN [defined |-> TRUE, jobs |-> memory[sbuild[c]]]
                    ELSE [defined |-> FALSE, jobs |-> <<>>])
    /\ (spc[c] = "replace-set" /\ spc'[c] = "idle") =>
         \A d \in Callers \ {c} :
           (spc[d] = "replace-set" /\ sbuild[d] = sbuild[c]) => sgot[d] # sgot[c]
C23_AtomicStore == [][C23_Step]_vars

\* C24: replace returns the array stored for the build just before the call, the
\* empty array when the build had no entry; after it the entry of the build is
\* exactly the array it was given, and the entries of other builds are as they
\* were: one array per build id, nothing of the earlier one kept.
C24_Step ==
  \A c \in Callers :
    /\ (spc[c] = "replace-set" /\ spc'[c] = "idle") =>
         /\ sret'[c] = (IF sbuild[c] \in DOMAIN memory THEN memory[sbuild[c]] ELSE <<>>)
         /\ memory'[sbuild[c]] = sarg[c]
         /\ OthersKept(sbuild[c])
    /\ (spc[c] = "replace-get" /\ spc'[c] # "replace-get") =>
         spc'[c] = "replace-set" /\ memory' = memory
C24_ReplaceSwaps == [][C24_Step]_vars

\* C24 witness: a replace has returned the earlier array of its build and left
\* its own array there, with the other build's entry in place.
C24_Witness ==
  /\ slast[1] = "replace"
  /\ sret[1] = <<JobInfo("1", "a", "created", None)>>
  /\ sarg[1] = <<JobInfo("2", "b", "created", None)>>
  /\ DOMAIN memory = BuildIds
  /\ memory[sbuild[1]] = sarg[1]

\* C24 witness: a replace on a build without entry has returned the empty array.
C24_WitnessFirst ==
  /\ slast[1] = "replace"
  /\ nCalls = 1
  /\ sret[1] = <<>>
  /\ sarg[1] # <<>>

\* C25: update puts each record it is given in the place of the stored record of
\* the same jobId, or at the end when there is none; the other stored records
\* stay where and as they are; the jobIds stay unique; the entries of other builds
\* stay.  With no entry for the build it changes nothing and makes no entry.
C25_Step ==
  \A c \in Callers :
    /\ (spc[c] = "update-set" /\ spc'[c] = "idle") =>
         LET b == sbuild[c]
             old == memory[b]
             new == memory'[b]
             given(jobId) == CHOOSE n \in 1..Len(sarg[c]) : sarg[c][n].jobId = jobId
             added == SelectSeq(sarg[c], LAMBDA r : r.jobId \notin JobIdsOf(old))
         IN
         /\ Len(new) = Len(old) + Len(added)
         /\ \A i \in 1..Len(old) :
              new[i] = IF old[i].jobId \in JobIdsOf(sarg[c])
                       THEN sarg[c][given(old[i].jobId)]
                       ELSE old[i]
         /\ \A i \in 1..Len(added) : new[Len(old) + i] = added[i]
         /\ UniqueJobIds(old) => UniqueJobIds(new)
         /\ OthersKept(b)
    /\ (spc[c] = "update-get" /\ spc'[c] = "idle") =>
         /\ sbuild[c] \notin DOMAIN memory
         /\ memory' = memory
    /\ (spc[c] = "update-get" /\ spc'[c] = "update-set") =>
         sbuild[c] \in DOMAIN memory /\ memory' = memory
C25_UpdateMerges == [][C25_Step]_vars

\* C25 witness: an update has put the annotated record of job 1 in the place of
\* the stored one and left job 2 behind it.
C25_Witness ==
  /\ slast[1] = "update"
  /\ sarg[1] = <<JobInfo("1", "a", "started", "c7")>>
  /\ memory[sbuild[1]] = <<JobInfo("1", "a", "started", "c7"),
                           JobInfo("2", "b", "created", None)>>

\* C25 witness: an update has added a record of a jobId the build had none of.
C25_WitnessAppended ==
  /\ slast[1] = "update"
  /\ sarg[1] = <<JobInfo("2", "b", "created", None)>>
  /\ memory[sbuild[1]] = <<JobInfo("1", "a", "created", None),
                           JobInfo("2", "b", "created", None)>>

\* C25 witness: an update of a build without entry has returned, and the build
\* has no entry, beside another build that has one.
C25_WitnessNoMemory ==
  /\ slast[1] = "no memory"
  /\ sarg[1] # <<>>
  /\ sbuild[1] \notin DOMAIN memory
  /\ DOMAIN memory # {}

----------------------------------------------------------------------------
\* The status handler with the Store: properties

\* the record of jobId in the entry of the build, NoJob when there is none
StoredJob(mem, jobId) ==
  IF HandledBuild \in DOMAIN mem THEN FindJob(mem[HandledBuild], jobId) ELSE NoJob

\* the handler has taken the diff and called its operations in this step
DiffTaken == hpc = "replace-set" /\ hpc' # "replace-set"

\* the n-th operation, of the given kind, has failed in this step
OperationFailed(n, kind) ==
  /\ n \in 1..Len(hops) /\ n \in 1..Len(hops')
  /\ hops[n].kind = kind
  /\ hops[n].pc = "pending"
  /\ hops'[n].pc = "failed"

\* C22: a record whose createCheck failed is left without checkRunId, and the
\* next pass that still discovers its job puts the job in the create set again:
\* a create operation is called for it, not an update and not nothing.
C22_Step ==
  /\ \A n \in 1..2 :
       OperationFailed(n, "create") =>
         /\ StoredJob(memory', hops[n].jobId).checkRunId = None
         /\ \A i \in 1..Len(htoStore') : htoStore'[i].jobId # hops[n].jobId
  /\ DiffTaken =>
       \A i \in 1..Len(hjobs) :
         hjobs[i].jobId \in createFailed =>
           \E n \in 1..Len(hops') :
             hops'[n].kind = "create" /\ hops'[n].jobId = hjobs[i].jobId
C22_FailedCreateRetried == [][C22_Step]_vars

\* C29: a stored record has a checkRunId only if a createCheck of its job returned
\* that id; every update request for a job whose check was created carries a
\* check id, one that was returned at that creation; and a stored record that has
\* a checkRunId keeps it through a pass in which its job is fetched unchanged.
C29_Step ==
  /\ \A j \in {"1", "2"} :
       StoredJob(memory', j).checkRunId # None =>
         StoredJob(memory', j).checkRunId \in createdAs'[j]
  /\ \A n \in 1..Len(hops') :
       (hops'[n].kind = "update" /\ createdAs'[hops'[n].jobId] # {}) =>
         /\ hops'[n].params.check_run_id # None
         /\ hops'[n].params.check_run_id \in createdAs'[hops'[n].jobId]
  /\ (hpc \notin {"idle", "loading"} /\ hpc' = "idle") =>
       \A i \in 1..Len(hjobs) :
         LET before == FindJob(ReplaceAnswer(hgot), hjobs[i].jobId) IN
         ( /\ hpc # "replace-set" => before = FindJob(hprevious, hjobs[i].jobId)
           /\ before # NoJob
           /\ before.checkRunId # None
           /\ before.state = hjobs[i].state
           /\ before.name = hjobs[i].name ) =>
           StoredJob(memory', hjobs[i].jobId).checkRunId = before.checkRunId
C29_CheckRunIdKept == [][C29_Step]_vars

\* C30: when updateCheck fails for a job whose check was created, the stored
\* record of the job is the one stored before the pass, and so the next pass that
\* fetches the job in the same state finds it changed and calls the update again.
C30_Step ==
  /\ \A n \in 1..2 :
       (OperationFailed(n, "update") /\ createdAs[hops[n].jobId] # {}) =>
         StoredJob(memory', hops[n].jobId) = FindJob(hprevious, hops[n].jobId)
  /\ DiffTaken =>
       \A i \in 1..Len(hjobs) :
         ( /\ createdAs[hjobs[i].jobId] # {}
           /\ updateFailed[hjobs[i].jobId] =
                (IF hjobs[i].state \in {"passed", "failed", "errored", "canceled"}
                 THEN "completed"
                 ELSE IF hjobs[i].state = "started" THEN "in_progress" ELSE "queued") ) =>
           \E n \in 1..Len(hops') :
             hops'[n].kind = "update" /\ hops'[n].jobId = hjobs[i].jobId
C30_FailedUpdateRetried == [][C30_Step]_vars

----------------------------------------------------------------------------
\* The event serializer: release of the gate, independence of the keys

\* the processJobs call of the status handler for k has ended in this step without
\* publishing: it returned because the job fetch gave nothing, or it threw
C32_Step ==
  \A k \in Keys : \A i \in StatusPasses(k) :
    (FetchDone(k, i, FALSE) \/ DiffDone(k, i, FALSE)) =>
      /\ k \in DOMAIN inProgress
      /\ IF inProgress[k] > 1
         THEN k \in DOMAIN inProgress' /\ inProgress'[k] = inProgress[k] - 1
         ELSE k \notin DOMAIN inProgress'

\* a status event of k arrives after the entry of k was deleted
C32_LaterEvent ==
  \A k \in Keys :
    (k \notin DOMAIN inProgress /\ finished[k] > 0 /\ arrivals'[k] = arrivals[k] + 1) =>
      /\ k \in DOMAIN inProgress' /\ inProgress'[k] = 1
      /\ started'[k] = started[k] + 1
      /\ Len(passes'[k]) = Len(passes[k]) + 1

\* C32: when no more events arrive for a build and every pass terminates, the
\* build's entry is deleted in the end; a pass that throws or whose job fetch fails
\* decrements the count like any other, so no build stays active for ever and a
\* later event for the build finds no entry.
C32_GateReleased ==
  /\ [][C32_Step /\ C32_LaterEvent]_vars
  /\ \A k \in Keys : (k \in DOMAIN inProgress) ~> (k \notin DOMAIN inProgress)

\* C32 witness: every event has been delivered, the build was released, taken up
\* again by a later event and released again.
C32_Witness ==
  \E k \in Keys :
    /\ nEvents = MaxEvents
    /\ late[k] /\ started[k] >= 2 /\ finished[k] = started[k]
    /\ k \notin DOMAIN inProgress

\* builds whose domains or ids differ, as parseStatus can answer them
C35_Builds == [domain : {"travis-ci.org", "travis-ci.com"}, id : {"7", "8", "78"}]

\* a status event of key a arrives, or a pass of key a ends or moves on: nothing
\* kept for another key b changes
C35_Frame ==
  \A a \in Keys, b \in Keys :
    (a # b /\ <<arrivals[a], finished[a], passes[a]>>' # <<arrivals[a], finished[a], passes[a]>>) =>
      /\ (b \in DOMAIN inProgress') = (b \in DOMAIN inProgress)
      /\ b \in DOMAIN inProgress => inProgress'[b] = inProgress[b]
      /\ <<passes[b], arrivals[b], fetchedAt[b], started[b], finished[b], late[b]>>' =
           <<passes[b], arrivals[b], fetchedAt[b], started[b], finished[b], late[b]>>

\* a status event of key b is taken as the count of b alone says, whatever is kept
\* for the other keys: a pass at once when b has no entry, one more pending event
\* below the ceiling
C35_OwnCountDecides ==
  \A b \in Keys :
    arrivals'[b] = arrivals[b] + 1 =>
      IF b \notin DOMAIN inProgress
      THEN /\ b \in DOMAIN inProgress' /\ inProgress'[b] = 1
           /\ started'[b] = started[b] + 1
      ELSE IF inProgress[b] < maxInProgress
      THEN b \in DOMAIN inProgress' /\ inProgress'[b] = inProgress[b] + 1
      ELSE inProgress'[b] = inProgress[b]

\* C35: an event arrival or a pass completion for build key A never changes the
\* pending count of another key B and never delays, drops or coalesces B's events;
\* two keys differ when the domain or the build id differs, and passes of
\* different keys are in flight together.
C35_KeysIndependent ==
  /\ [](\A x \in C35_Builds, y \in C35_Builds : x # y => getProgressKey(x) # getProgressKey(y))
  /\ [][C35_Frame /\ C35_OwnCountDecides]_vars

\* C35 witness: one key is at the ceiling and has dropped an event while another key,
\* whose first event came later, runs its own pass with a count of 1.
C35_Witness ==
  \E a \in Keys, b \in Keys :
    /\ a # b
    /\ a \in DOMAIN inProgress /\ inProgress[a] = maxInProgress /\ arrivals[a] = 3
    /\ b \in DOMAIN inProgress /\ inProgress[b] = 1 /\ arrivals[b] = 1
    /\ Len(passes[a]) = 1 /\ Len(passes[b]) = 1 /\ nEvents = 4

\* a step of the two gates side by side: the same passes are started
C36_SamePasses ==
  \A k \in Keys : started'[k] - started[k] = flagStarted'[k] - flagStarted[k]

\* a step of the two gates side by side: a status event of k is dropped by the one
\* exactly when the other drops it
C36_SameDrops ==
  \A k \in Keys :
    arrivals'[k] # arrivals[k] =>
      ((inProgress' = inProgress) <=> (flagSkipped'[k] # flagSkipped[k]))

\* C36: with ceiling 2 the gate that counts and the gate with the in-progress Set
\* and the second-chance Map are equivalent: over every interleaving of event
\* arrivals and pass completions they start the same passes and drop the same
\* events.
C36_GatesEquivalent == [][maxInProgress = 2 => (C36_SamePasses /\ C36_SameDrops)]_vars

\* the counted events of k that the passes started so far have not consumed: the
\* count less the one of the running pass
C39_Owed(k) == IF k \in DOMAIN inProgress THEN inProgress[k] - 1 ELSE 0

\* a status event of k arrives and is counted: the handler stores a count for it
C39_Accepted(k) == arrivals'[k] # arrivals[k] /\ inProgress' # inProgress

\* passes started for k = events of k accepted, less the events owed: each step adds
\* to started[k] + owed(k) one for an accepted event of k and nothing otherwise
C39_Step ==
  \A k \in Keys :
    (started[k] + C39_Owed(k))' - (started[k] + C39_Owed(k)) =
      IF C39_Accepted(k) THEN 1 ELSE 0

\* C39: each started pass consumes exactly one counted event: while a build has no
\* entry the passes started for it are as many as its accepted status events, and
\* while it is active they are the accepted events less the current count plus one.
\* With nothing started, owed or accepted at the start, the step equation says so
\* of every state; the passes started never exceed the events arrived.
C39_PassPerCountedEvent ==
  /\ [][C39_Step]_vars
  /\ [](\A k \in Keys : started[k] + C39_Owed(k) <= arrivals[k])

\* C39 witness: five events of a build, two of them dropped at the ceiling, three
\* passes started and completed, and the build is idle again.
C39_Witness ==
  \E k \in Keys :
    /\ k \notin DOMAIN inProgress
    /\ arrivals[k] = 5 /\ started[k] = 3 /\ finished[k] = 3

----------------------------------------------------------------------------
\* The log scanner: stream errors, release of the request and the timer

\* the 'error' handler has run while the parser was initial or inside-block
C31_Step ==
  (~errored /\ errored' /\ parserInProgress(state)) =>
     /\ Len(settled') = 1
     /\ settled'[1].message = "LogStreamIncomplete"

\* C31: a stream or transport error raised while the parser is still initial or
\* inside-block is reported as StreamIncomplete (and so is retried by the wrapper in
\* the same way as a truncated stream).
C31_StreamErrorIsIncomplete == [][C31_Step]_vars

\* the parser leaves initial / inside-block in this step
C33_Step ==
  (parserInProgress(state) /\ ~parserInProgress(state')) =>
     /\ state' \in {"block-complete", "stream-finished", "error"} => aborted'
     /\ IF deadline' = "fired" /\ deadline = "armed"
        THEN state' = "error"
        ELSE deadline' = "cleared"

\* C33: every transition into a terminal parser state caused by a closing fence, a
\* completion marker, a stream error or the deadline aborts the request in the
\* same step, and every terminal transition not made by the timer cancels the
\* timer; once the call has its outcome no timer is armed and the request is
\* aborted or its stream is over.
C33_RequestAndTimerReleased ==
  /\ [][C33_Step]_vars
  /\ [](settled # <<>> => (deadline # "armed" /\ (aborted \/ ended \/ closed)))

\* C33 witness: a stream error inside the fenced block ended a second attempt, with
\* the request aborted and the timer cancelled.
C33_Witness ==
  /\ attempts = 2
  /\ state = "error" /\ errored /\ lineCount >= 1
  /\ aborted /\ deadline = "cleared" /\ settled # <<>>

\* the LogStreamIncomplete failures getJobOutput has caught, the waits it has begun
\* (the wait after attempt n ends with the call of attempt n + 1) and the time
\* those waits take
IncompleteFailures == TRIES - tries
WaitsBegun == IF wpc = "backoff" THEN attempts ELSE attempts - 1
TotalDelay == WaitsBegun * BACKOFF

\* C34 as stated: an extraction that suffers N StreamIncomplete failures incurs
\* exactly N waits of 3 s, one after each failure: the total delay is N times the
\* backoff.
C34_WaitAfterEveryFailure == TotalDelay = IncompleteFailures * BACKOFF

\* getJobOutput catches a LogStreamIncomplete failure in this step
C34_Step ==
  tries' # tries =>
    /\ tries' = tries - 1
    /\ IF tries' > 0
       THEN wpc' = "backoff" /\ attempts' = attempts
       ELSE wpc' = "thrown"

\* C34 amended: every StreamIncomplete failure that leaves a try is followed by one
\* wait of 3 s, and the failure that spends the last try by none: N failures incur
\* N waits when N < 10 and 9 waits when N = 10.
C34_WaitBetweenTries ==
  /\ [][C34_Step]_vars
  /\ [](TotalDelay = (IF tries > 0 THEN IncompleteFailures ELSE TRIES - 1) * BACKOFF)

\* C34 witness: the tenth failure has ended the call, after nine waits.
C34_Witness ==
  /\ wpc = "thrown" /\ tries = 0 /\ attempts = TRIES
  /\ TotalDelay = 9 * BACKOFF

\* the lines of the log were all delivered and the stream then ended, with no stream
\* error and before the deadline
C37_DeliveredAndEnded == ended /\ ~errored /\ deadline # "fired"

\* C37: for every finite line sequence that is delivered completely and then ended
\* (no stream error, no deadline expiry), the event-driven scanner and the loop over
\* the lines of the whole response body have the same outcome: the same parsed
\* payload, 'no block', StreamIncomplete or the parse error.  The second line is the
\* body that ends with a line terminator: splitIter then yields one more, empty,
\* piece after the last line.
C37_StreamingEqualsBatch ==
  C37_DeliveredAndEnded =>
    /\ settled = <<getJobOutputImplWhole(seen)>>
    /\ settled = <<getJobOutputImplWhole(Append(seen, <<>>))>>

\* C37 witness: the log opened a fence, held one line of JSON and ended without the
\* closing fence: StreamIncomplete from both.
C37_Witness ==
  /\ C37_DeliveredAndEnded
  /\ seen = <<NoiseLine, OpenLine, JsonLine>>
  /\ settled = <<LogStreamIncomplete>>

----------------------------------------------------------------------------
\* The status handler with the Store: an unchanged build

\* store.replace returns in this step, to a handler that has fetched the jobs the
\* handler before it fetched (the same jobIds, names and states, in the same
\* order), every operation of which succeeded
C38_Step ==
  (hpc = "replace-set" /\ hpc' # hpc /\ lastJobs = hjobs /\ lastSucceeded) =>
     /\ hpc' = "idle"
     /\ hops' = <<>>
     /\ nextCheckId' = nextCheckId

C40_Given(line) == lineCount' = lineCount + 1 /\ seen' = Append(seen, line)

\* the lines before line n that are an opening fence, and the closing fences that
\* follow the first of them
C40_OpensBefore(n) == {i \in 1..(n - 1) : IsOpenFence(seen'[i])}
C40_ClosesBefore(n) ==
  {j \in 1..(n - 1) : IsCloseFence(seen'[j]) /\ \E i \in C40_OpensBefore(j) : TRUE}

C40_Step ==
  \A line \in LogLines :
    C40_Given(line) =>
      \* inside the block a marker line or a second opening fence is payload
      /\ (state = "inside-block" /\ (IsExited(line) \/ IsOpenFence(line))) =>
           /\ state' = "inside-block"
           /\ outputString' = outputString \o TrimEnd(TrimStart(line))
           /\ settled' = settled
      \* before the block a closing fence is ignored
      /\ (state = "initial" /\ IsCloseFence(line)) =>
           /\ state' = "initial"
           /\ <<outputString, settled, deadline, aborted>>' =
                <<outputString, settled, deadline, aborted>>
      \* 'no block' comes of a marker line before any opening fence only
      /\ (state' = "stream-finished" /\ state # "stream-finished") =>
           /\ IsExited(line)
           /\ C40_OpensBefore(Len(seen')) = {}
      \* the block is closed by the first closing fence after the first opening fence
      /\ (state' = "block-complete" /\ state # "block-complete") =>
           /\ IsCloseFence(line)
           /\ C40_OpensBefore(Len(seen')) # {}
           /\ C40_ClosesBefore(Len(seen')) = {}

\* C40: inside the block a line holding the completion marker, or a second
\* '---output' line, is appended to the payload and the parser stays inside the
\* block; before the block a '---' line is ignored; so the completion marker gives
\* 'no block' only before any opening fence, and only the first '---' after the
\* first '---output' closes the block.
C40_FencesAndMarkerByState == [][C40_Step]_vars

\* C40 witness: ---, ---output, the marker line, ---output, --- has been read: the
\* first line was ignored, the third and fourth are the payload, the fifth closed
\* the block.
C40_Witness ==
  /\ seen = <<CloseLine, OpenLine, ExitedLine, OpenLine, CloseLine>>
  /\ state = "block-complete"
  /\ outputString = TrimEnd(TrimStart(ExitedLine)) \o OpenFenceText
  /\ settled = <<SyntaxError>>

====
